---- MODULE Spec2Model ----
(***************************************************************************)
(* Transfer engine of the file transfer activity                           *)
(* (src/src/ui/activities/filetransfer/session.rs).                        *)
(*                                                                         *)
(* One invocation of filetransfer_send / filetransfer_recv is modelled as  *)
(* a sequential machine: `pc` is the position in the code, `stack` the     *)
(* activation records of filetransfer_{send,recv}_recurse and `one` the    *)
(* locals of filetransfer_{send,recv}_one.  Every provider call is a step  *)
(* whose outcome (success, failure, short read, ...) is chosen by the      *)
(* environment.  Sizes are counted in bytes with a small read buffer.      *)
(*                                                                         *)
(* Two more parts of the program have a specification of their own: the    *)
(* connection to the remote (connect and the reload of the remote          *)
(* explorer, ConnSpec) and the bookmark list component                     *)
(* (src/src/ui/components/bookmark_list.rs, BookmarkSpec).                 *)
(***************************************************************************)
EXTENDS Integers, Sequences, FiniteSets, TLC

VARIABLES
    pc,        \* position in the code of the running invocation
    op,        \* "none" | "send" | "recv": the invocation that is running
    payload,   \* TransferPayload: [kind, entries]
    dst_name,  \* Option<String>: NoName or the rename hint
    local_path, \* the directory argument: curr_remote_path (send), local_path (recv)
    transfer,  \* TransferStates: [aborted, full, partial]
    stack,     \* activation records of filetransfer_*_recurse
    top_i,     \* index of the next top-level entry (for_each of *_any / *_many)
    one,       \* locals of filetransfer_*_one for the file being copied
    files,     \* destination side: path -> length of every existing file
    dirs,      \* destination side: existing directories
    result,    \* what the invocation returned: "none" | "Ok" | error reason
    faults,    \* environment deviations used so far (provider failures, stale sizes)
    log,       \* log lines written: set of [lvl, alert, msg, path]
    hist,      \* observation record: [sent, failed, probed, removed, touched, cut, ...]
    params,    \* FileTransferParams: [entry_directory]
    popups,    \* the popups that are mounted: subset of {"wait", "fatal"}
    remote,    \* explorer of the remote side: [wrkdir, files, dirstack]
    client,    \* the file transfer client: [connected, pwd]
    calls,     \* the calls connect has made so far: sequence of [fn, ok]
    props,     \* BookmarkList.props: [some, vec], the PROP_BOOKMARKS payload
    states,    \* BookmarkList.states: OwnStates [list_index, list_len, focus]
    returned,  \* the Msg the component returned last: [kind, key, index]
    last,      \* the last call on the component: [ev, was], was = states before it
    cache,     \* self.cache: NoPath (None) or the path of the cache directory
    tmp,       \* what download_file_as_temp returned: [ret, path]
    local,     \* explorer of the local side: [wrkdir, files, dirstack]
    host,      \* the localhost: [pwd]
    chdir,     \* the change of directory that is asked: [side, path, push, was]
    activity,  \* SetupActivity: [layout, field, popups, exit_reason, config_changed]
    handled    \* the last message SetupActivity::update handled: [from, msg, was, did]

args == <<op, payload, dst_name, local_path>>

\* the explorer and its connection
browser == <<params, popups, remote, client, calls>>

\* the bookmark list
component == <<props, states, returned, last>>

\* the temporary files of the text editor
editor == <<cache, tmp>>

\* the local side of the explorer
localside == <<local, host, chdir>>

\* the setup activity
setup == <<activity, handled>>

\* the parts of the user interface an invocation of the transfer engine leaves alone
ui == <<browser, component, editor, localside, setup>>

vars == <<pc, args, transfer, stack, top_i, one, files, dirs,
          result, faults, log, hist, ui>>

(***************************************************************************)
(* Bounds of the model                                                     *)
(***************************************************************************)
\* bytes one read() may return (the program's buffer holds 65536)
BufSize == 2
\* environment deviations (provider failures, stale sizes) per invocation
MaxFaults == 1
\* bookmarks the list is given at most
MaxBookmarks == 10

(***************************************************************************)
(* The source tree, as the provider's listings report it                   *)
(***************************************************************************)
NoName == "-"
NoPath == <<>>
SrcRoot == <<"src">>
DstRoot == <<"dst">>

Last(p) == p[Len(p)]

FsFile(path, size, pex) ==
    [kind |-> "File", abs_path |-> path, name |-> Last(path), size |-> size,
     unix_pex |-> pex]

FsDirectory(path, pex) ==
    [kind |-> "Directory", abs_path |-> path, name |-> Last(path), size |-> 0,
     unix_pex |-> pex]

EntryT == FsFile(<<"src", "t">>, 2, TRUE)
EntryD == FsDirectory(<<"src", "d">>, TRUE)
EntryA == FsFile(<<"src", "d", "a">>, 1, FALSE)
EntryS == FsDirectory(<<"src", "d", "s">>, FALSE)
EntryC == FsFile(<<"src", "d", "s", "c">>, 3, TRUE)
EntryB == FsFile(<<"src", "d", "b">>, 1, TRUE)
\* an empty file
EntryZ == FsFile(<<"src", "z">>, 0, TRUE)

\* what scan_dir / list_dir return for a directory of the source side
Listing(path) ==
    CASE path = SrcRoot -> <<EntryD, EntryT, EntryZ>>
      [] path = <<"src", "d">> -> <<EntryA, EntryS, EntryB>>
      [] path = <<"src", "d", "s">> -> <<EntryC>>
      [] OTHER -> <<>>

Range(s) == {s[i] : i \in DOMAIN s}

RECURSIVE SumSeq(_)
SumSeq(s) == IF s = <<>> THEN 0 ELSE Head(s) + SumSeq(Tail(s))

\* the payloads the explorer can build from the listing of the working directory
Payloads ==
    { [kind |-> "File", entries |-> <<EntryT>>],
      [kind |-> "Any", entries |-> <<EntryT>>],
      [kind |-> "Any", entries |-> <<EntryD>>],
      [kind |-> "File", entries |-> <<EntryZ>>],
      [kind |-> "Any", entries |-> <<EntryZ>>],
      [kind |-> "Many", entries |-> <<EntryD, EntryT>>] }

Names == {NoName, "r"}

\* directories below the entries of a payload
RECURSIVE DirsBelow(_)
DirsBelow(e) ==
    IF e.kind = "File" THEN {}
    ELSE {e.abs_path} \cup UNION {DirsBelow(c) : c \in Range(Listing(e.abs_path))}

\* files below the entries of a payload
RECURSIVE FilesBelow(_)
FilesBelow(e) ==
    IF e.kind = "File" THEN {e}
    ELSE UNION {FilesBelow(c) : c \in Range(Listing(e.abs_path))}

(***************************************************************************)
(* Progress tracker (TransferStates / ProgressStates)                      *)
(***************************************************************************)
ProgressStates == [total |-> 0, written |-> 0]

\* ProgressStates::init(sz)
ProgressInit(sz) == [total |-> sz, written |-> 0]

\* ProgressStates::update_progress(delta)
update_progress(p, delta) == [p EXCEPT !.written = @ + delta]

\* ProgressStates::calc_progress(), in thousandths
calc_progress(p) == IF p.total = 0 THEN 1000 ELSE (p.written * 1000) \div p.total

\* TransferStates::reset()
reset(t) == [t EXCEPT !.aborted = FALSE]

\* TransferStates::abort(), called by the input handler
abort(t) == [t EXCEPT !.aborted = TRUE]

(***************************************************************************)
(* Logging                                                                 *)
(***************************************************************************)
Line(lvl, alert, msg, path) == [lvl |-> lvl, alert |-> alert, msg |-> msg, path |-> path]

\* self.log(level, msg)
Log(lvl, msg, path) == {Line(lvl, FALSE, msg, path)}

\* a slip: the line is logged and no alert is mounted
LogOnly(lvl, msg, path) == {Line(lvl, FALSE, msg, path)}

\* self.log_and_alert(level, msg)
LogAndAlert(lvl, msg, path) == {Line(lvl, TRUE, msg, path)}

(***************************************************************************)
(* Destination side                                                        *)
(***************************************************************************)
\* a stream opened for writing creates the file, or truncates it
Create(fs, path) == [p \in DOMAIN fs \cup {path} |-> IF p = path THEN 0 ELSE fs[p]]

\* bytes accepted by a write are appended
WriteBytes(fs, path, n) ==
    IF path \in DOMAIN fs THEN [fs EXCEPT ![path] = @ + n] ELSE fs

\* remove(entry)
Remove(fs, path) == [p \in DOMAIN fs \ {path} |-> fs[p]]

\* the destination as an earlier transfer of the same tree left it
OldFiles ==
    [p \in {<<"dst", "t">>, <<"dst", "d", "a">>, <<"dst", "d", "b">>,
            <<"dst", "d", "s", "c">>} |-> 1]

OldDirs == {<<"dst", "d">>, <<"dst", "d", "s">>}

NoFiles == [p \in {} |-> 0]

(***************************************************************************)
(* Locals of filetransfer_send_one / filetransfer_recv_one                 *)
(***************************************************************************)
NoOne ==
    [src |-> NoPath, dst |-> NoPath, size |-> 0, pex |-> FALSE, file_size |-> 0,
     total_bytes_written |-> 0, bytes_read |-> 0, delta |-> 0,
     last_input_event_fetch |-> FALSE, avail |-> 0, ret |-> "none",
     \* rhnd is open; calls of on_sent / on_recv; chunks read since the abort
     rhnd |-> FALSE, finalized |-> 0, after |-> 0]

\* the call filetransfer_*_one(file, path): nothing is open yet
CallOne(file, path) ==
    [NoOne EXCEPT !.src = file.abs_path, !.dst = path, !.size = file.size,
                  !.pex = file.unix_pex]

NoHist ==
    [sent |-> {}, failed |-> {}, probed |-> {}, removed |-> {}, touched |-> {},
     cut |-> NoPath, failing |-> {}, reloads |-> 0, chmod |-> {},
     existed |-> {}, nodir |-> {}]

CanFail == faults < MaxFaults

(***************************************************************************)
(* The user interface around the engine, at rest                           *)
(***************************************************************************)
\* the remote side before anything was listed
ExplorerDefault == [wrkdir |-> <<"/">>, files |-> {}, dirstack |-> <<>>]

\* the directory the server puts a new session in
ServerHome == <<"/", "home">>

\* Props that hold no PROP_BOOKMARKS
NoProps == [some |-> FALSE, vec |-> <<>>]

\* OwnStates::default()
OwnStatesDefault == [list_index |-> 0, list_len |-> 0, focus |-> FALSE]

\* Msg::None
MsgNone == [kind |-> "None", key |-> "-", index |-> 0]

NoEvent == [ev |-> "-", was |-> OwnStatesDefault]

\* a session that is connected and shows no popup
BrowserAtRest ==
    /\ params = [entry_directory |-> NoPath]
    /\ popups = {}
    /\ remote = ExplorerDefault
    /\ client = [connected |-> TRUE, pwd |-> ServerHome]
    /\ calls = <<>>

\* a bookmark list without bookmarks that no event has reached
ComponentAtRest ==
    /\ props = NoProps
    /\ states = OwnStatesDefault
    /\ returned = MsgNone
    /\ last = NoEvent

\* download_file_as_temp was never called
NoTmp == [ret |-> "none", path |-> NoPath]

EditorAtRest == cache = NoPath /\ tmp = NoTmp

\* the directory termscp is started in
LocalHome == <<"/", "work">>

NoChdir == [side |-> "-", path |-> NoPath, push |-> FALSE, was |-> ExplorerDefault]

\* the local side before anything was listed
LocalAtRest ==
    /\ local = ExplorerDefault
    /\ host = [pwd |-> LocalHome]
    /\ chdir = NoChdir

\* the setup activity was not entered
NoActivity ==
    [layout |-> "-", field |-> "-", popups |-> <<>>, exit_reason |-> "None",
     config_changed |-> FALSE]

NoUpdate == [from |-> "-", msg |-> MsgNone, was |-> NoActivity, did |-> {}]

SetupAtRest == activity = NoActivity /\ handled = NoUpdate

Init ==
    /\ pc = "idle"
    /\ op = "none"
    /\ payload = [kind |-> "Many", entries |-> <<>>]
    /\ dst_name = NoName
    /\ local_path = DstRoot
    \* a new activity, or one whose previous transfer was cancelled
    /\ transfer \in {[aborted |-> a, full |-> ProgressStates, partial |-> ProgressStates] :
                        a \in BOOLEAN}
    /\ stack = <<>>
    /\ top_i = 1
    /\ one = NoOne
    /\ \/ files = NoFiles /\ dirs = {}
       \/ files = OldFiles /\ dirs = OldDirs
    /\ result = "none"
    /\ faults = 0
    /\ log = {}
    /\ hist = NoHist
    /\ BrowserAtRest
    /\ ComponentAtRest
    /\ EditorAtRest
    /\ LocalAtRest
    /\ SetupAtRest

(***************************************************************************)
(* Helpers shared by the walk                                              *)
(***************************************************************************)
Top == stack[Len(stack)]

Pop == SubSeq(stack, 1, Len(stack) - 1)

\* where control continues when filetransfer_*_recurse returns
AfterReturn == IF Len(stack) = 1 THEN "top" ELSE "dir_loop"

SetTop(f) == [stack EXCEPT ![Len(stack)] = f]

\* a slip: the path is built from the directory of the invocation, not from the
\* directory the walk is in
DestPathFlat(curr, entry, name) ==
    Append(local_path, IF name # NoName THEN name ELSE entry.name)

\* destination of an entry: curr_remote_path joined with dst_name, or with the
\* entry's own name when no dst_name is given
DestPath(curr, entry, name) == Append(curr, IF name # NoName THEN name ELSE entry.name)

Frame(entry, path) == [entry |-> entry, path |-> path, entries |-> <<>>, i |-> 1]

\* a slip: the rename hint is handed down to the entries of the directory
RecurseNameKept == dst_name

\* the dst_name of the recursive call in the loop over a directory: None
RecurseName == NoName

\* a slip: the entries of a directory are taken from the end of the listing
NextEntryReversed(f) == f.entries[Len(f.entries) + 1 - f.i]

\* `for entry in entries.iter()`: the entry the loop over a directory is at
NextEntry(f) == f.entries[f.i]

\* a slip: the loop over a directory never looks at the abort flag
BreakWalkNever == FALSE

\* "If aborted; break" in the loop over the entries of a directory
BreakWalk == transfer.aborted

\* a slip: the copy loop runs to the end of the file whatever the abort flag says
CopyGoesOnToEnd == one.total_bytes_written < one.file_size

\* the condition of the copy loop: while total_bytes_written < file_size && !aborted
CopyGoesOn == one.total_bytes_written < one.file_size /\ ~transfer.aborted

\* a slip: the states of the previous transfer are kept
ResetStatesSkipped(t) == t

\* "Reset states": self.transfer.reset()
ResetStates(t) == reset(t)

Min(a, b) == IF a <= b THEN a ELSE b

\* lengths a file may really have when its snapshot says `size`
Lengths(size) == {size} \cup (IF CanFail THEN {size + 1} \cup ({size - 1} \ {-1}) ELSE {})

\* filetransfer_*_one returns Err(reason)
Fail(reason) ==
    /\ one' = [one EXCEPT !.ret = reason]
    /\ hist' = [hist EXCEPT !.failed = @ \cup {<<one.dst, reason>>}]
    /\ pc' = "one_ret"

\* directories scan_dir / list_dir is called on while sizes are summed
RECURSIVE ScannedDirs(_, _)
ScannedDirs(entry, failing) ==
    IF entry.kind = "File" THEN {}
    ELSE {entry.abs_path} \cup
         (IF entry.abs_path \in failing THEN {}
          ELSE UNION {ScannedDirs(c, failing) : c \in Range(Listing(entry.abs_path))})

\* the scans that may fail while the sizes of `entries` are summed
FailSets(entries) ==
    {F \in SUBSET (UNION {DirsBelow(e) : e \in Range(entries)}) :
        /\ Cardinality(F) <= MaxFaults - faults
        /\ F \subseteq UNION {ScannedDirs(e, F) : e \in Range(entries)}}

(***************************************************************************)
(* Transfer sizes                                                          *)
(***************************************************************************)
\* a slip: a directory counts the sizes its listing reports, without descending
get_total_transfer_size_local_flat(entry, failing) ==
    IF entry.kind = "File" THEN entry.size
    ELSE IF entry.abs_path \in failing THEN 0
    ELSE LET fs == Listing(entry.abs_path)
         IN  SumSeq([i \in DOMAIN fs |-> fs[i].size])

\* a slip: a scan that fails anywhere below a directory zeroes the whole directory
RECURSIVE get_total_transfer_size_local_strict(_, _)
get_total_transfer_size_local_strict(entry, failing) ==
    IF entry.kind = "File" THEN entry.size
    ELSE IF ScannedDirs(entry, failing) \cap failing # {} THEN 0
    ELSE LET fs == Listing(entry.abs_path)
         IN  SumSeq([i \in DOMAIN fs |-> get_total_transfer_size_local_strict(fs[i], failing)])

RECURSIVE get_total_transfer_size_local(_, _)
get_total_transfer_size_local(entry, failing) ==
    IF entry.kind = "File" THEN entry.size
    ELSE IF entry.abs_path \in failing THEN 0
    ELSE LET fs == Listing(entry.abs_path)
         IN  SumSeq([i \in DOMAIN fs |-> get_total_transfer_size_local(fs[i], failing)])

RECURSIVE get_total_transfer_size_remote(_, _)
get_total_transfer_size_remote(entry, failing) ==
    IF entry.kind = "File" THEN entry.size
    ELSE IF entry.abs_path \in failing THEN 0
    ELSE LET fs == Listing(entry.abs_path)
         IN  SumSeq([i \in DOMAIN fs |-> get_total_transfer_size_remote(fs[i], failing)])

\* the log lines of the scans that failed while sizes were summed
SizeLog(failing) == UNION {Log("Error", "Could not list directory", d) : d \in failing}

(***************************************************************************)
(* Send: entry points                                                      *)
(***************************************************************************)
filetransfer_send ==
    /\ pc = "idle"
    /\ \E p \in Payloads, n \in Names : payload' = p /\ dst_name' = n
    /\ local_path' = DstRoot
    /\ op' = "send"
    /\ pc' = "dispatch"
    /\ UNCHANGED <<ui, transfer, stack, top_i, one, files, dirs, result, faults, log, hist>>

filetransfer_send_file ==
    /\ pc = "dispatch" /\ op = "send" /\ payload.kind = "File"
    /\ LET file == payload.entries[1]
       IN  /\ transfer' = [ResetStates(transfer) EXCEPT !.full = ProgressInit(file.size)]
           /\ one' = CallOne(file, DestPath(local_path, file, dst_name))
    /\ pc' = "one_open"
    /\ UNCHANGED <<ui, args, stack, top_i, files, dirs, result, faults, log, hist>>

\* the caller's end of filetransfer_send_one in filetransfer_send_file
filetransfer_send_file_result ==
    /\ pc = "one_ret" /\ op = "send" /\ stack = <<>>
    /\ result' = one.ret
    /\ one' = NoOne
    /\ pc' = "done"
    /\ UNCHANGED <<ui, args, transfer, stack, top_i, files, dirs, faults, log, hist>>

filetransfer_send_any ==
    /\ pc = "dispatch" /\ op = "send" /\ payload.kind = "Any"
    /\ \E F \in FailSets(payload.entries) :
         /\ transfer' = [ResetStates(transfer) EXCEPT !.full =
                ProgressInit(get_total_transfer_size_local(payload.entries[1], F))]
         /\ log' = log \cup SizeLog(F)
         /\ faults' = faults + Cardinality(F)
         /\ hist' = [hist EXCEPT !.failing = F]
    /\ top_i' = 1
    /\ pc' = "top"
    /\ UNCHANGED <<ui, args, stack, one, files, dirs, result>>

filetransfer_send_many ==
    /\ pc = "dispatch" /\ op = "send" /\ payload.kind = "Many"
    /\ \E F \in FailSets(payload.entries) :
         /\ transfer' = [ResetStates(transfer) EXCEPT !.full =
                ProgressInit(SumSeq([i \in DOMAIN payload.entries |->
                    get_total_transfer_size_local(payload.entries[i], F)]))]
         /\ log' = log \cup SizeLog(F)
         /\ faults' = faults + Cardinality(F)
         /\ hist' = [hist EXCEPT !.failing = F]
    /\ top_i' = 1
    /\ pc' = "top"
    /\ UNCHANGED <<ui, args, stack, one, files, dirs, result>>

\* a slip: the failures of the walk are handed to the caller
AfterWalkReports == IF hist.failed = {} /\ hist.nodir = {} THEN "Ok" ELSE "Failed"

\* what filetransfer_*_any and filetransfer_*_many return after the walk: Ok(())
AfterWalk == "Ok"

\* the calls of filetransfer_send_recurse made by filetransfer_send_any (one call,
\* with dst_name) and filetransfer_send_many (for_each, with None), then Ok(())
send_each ==
    /\ pc = "top" /\ op = "send"
    /\ IF top_i <= Len(payload.entries)
       THEN LET entry == payload.entries[top_i]
                name == IF payload.kind = "Any" THEN dst_name ELSE NoName
            IN  /\ stack' = <<Frame(entry, DestPath(local_path, entry, name))>>
                /\ top_i' = top_i + 1
                /\ pc' = "recurse"
                /\ UNCHANGED result
       ELSE /\ result' = AfterWalk
            /\ pc' = "done"
            /\ UNCHANGED <<stack, top_i>>
    /\ UNCHANGED <<ui, args, transfer, one, files, dirs, faults, log, hist>>

(***************************************************************************)
(* Send: filetransfer_send_recurse                                         *)
(***************************************************************************)
\* the reasons after which the destination file is probed and removed
SendCleanup(err) == err \in {"Abrupted", "RemoteIoError"}

\* FsEntry::File: call filetransfer_send_one
send_recurse_file ==
    /\ pc = "recurse" /\ op = "send" /\ Top.entry.kind = "File"
    /\ one' = CallOne(Top.entry, Top.path)
    /\ pc' = "one_open"
    /\ UNCHANGED <<ui, args, transfer, stack, top_i, files, dirs, result,
                   faults, log, hist>>

\* FsEntry::File: what follows the call of filetransfer_send_one
send_recurse_result ==
    /\ pc = "one_ret" /\ op = "send" /\ stack # <<>>
    /\ IF one.ret = "Ok"
       THEN /\ pc' = "reload"
            /\ UNCHANGED log
       ELSE /\ log' = log \cup LogAndAlert("Error", "Failed to upload file", Top.path)
            /\ pc' = IF SendCleanup(one.ret) THEN "stat" ELSE "reload"
    /\ one' = NoOne
    /\ UNCHANGED <<ui, args, transfer, stack, top_i, files, dirs, result,
                   faults, hist>>

\* a slip: the failed removal also mounts an alert
CouldNotRemoveAlert(path) == {Line("Error", TRUE, "Could not remove created file", path)}

\* the Err arms of stat and remove in the cleanup: one self.log(LogLevel::Error, ..)
CouldNotRemove(path) == Log("Error", "Could not remove created file", path)

\* self.client.stat(remote_path)
send_recurse_stat ==
    /\ pc = "stat" /\ op = "send"
    /\ hist' = [hist EXCEPT !.probed = @ \cup {Top.path}]
    /\ \/ /\ Top.path \in DOMAIN files
          /\ pc' = "remove"
          /\ UNCHANGED <<log, faults>>
       \/ /\ Top.path \notin DOMAIN files \/ CanFail
          /\ faults' = IF Top.path \in DOMAIN files THEN faults + 1 ELSE faults
          /\ log' = log \cup CouldNotRemove(Top.path)
          /\ pc' = "reload"
    /\ UNCHANGED <<ui, args, transfer, stack, top_i, one, files, dirs, result>>

\* self.client.remove(&entry)
send_recurse_remove ==
    /\ pc = "remove" /\ op = "send"
    /\ hist' = [hist EXCEPT !.removed = @ \cup {Top.path}]
    /\ \/ /\ files' = Remove(files, Top.path)
          /\ UNCHANGED <<log, faults>>
       \/ /\ CanFail
          /\ faults' = faults + 1
          /\ log' = log \cup CouldNotRemove(Top.path)
          /\ UNCHANGED files
    /\ pc' = "reload"
    /\ UNCHANGED <<ui, args, transfer, stack, top_i, one, dirs, result>>

\* what self.client.mkdir(path) may answer
MkdirResults(path) ==
    (IF path \in dirs THEN {"DirectoryAlreadyExists"} ELSE {"Ok"}) \cup
    (IF CanFail THEN {"Err"} ELSE {})

\* a slip: only a directory that was just created is walked
send_mkdir_descends_strict(r) == r = "Ok"

\* a slip: the walk goes on below a directory that could not be created
send_mkdir_descends_always(r) == TRUE

\* the arms of the match on mkdir's result: Ok and DirectoryAlreadyExists go on to
\* scan_dir, any other error returns
send_mkdir_descends(r) == r \in {"Ok", "DirectoryAlreadyExists"}

\* FsEntry::Directory: self.client.mkdir(remote_path)
send_recurse_mkdir ==
    /\ pc = "recurse" /\ op = "send" /\ Top.entry.kind = "Directory"
    /\ \E r \in MkdirResults(Top.path) :
         /\ faults' = IF r = "Err" THEN faults + 1 ELSE faults
         /\ dirs' = IF r = "Ok" THEN dirs \cup {Top.path} ELSE dirs
         /\ hist' = [hist EXCEPT !.touched = @ \cup {Top.path},
                         !.existed = IF r = "DirectoryAlreadyExists"
                                     THEN @ \cup {Top.path} ELSE @,
                         !.nodir = IF r = "Err" THEN @ \cup {Top.path} ELSE @]
         /\ IF send_mkdir_descends(r)
            THEN /\ log' = log \cup
                          Log("Info", IF r = "Ok" THEN "Created directory"
                                      ELSE "Directory already exists on remote", Top.path)
                 /\ pc' = "scan"
                 /\ UNCHANGED stack
            ELSE /\ log' = log \cup
                          LogAndAlert("Error", "Failed to create directory", Top.path)
                 \* return: the reload and the abort alert below are skipped
                 /\ stack' = Pop
                 /\ pc' = AfterReturn
    /\ UNCHANGED <<ui, args, transfer, top_i, one, files, result>>

\* self.host.scan_dir(dir.abs_path)
send_recurse_scan ==
    /\ pc = "scan" /\ op = "send"
    /\ \/ /\ stack' = SetTop([Top EXCEPT !.entries = Listing(Top.entry.abs_path), !.i = 1])
          /\ pc' = "dir_loop"
          /\ UNCHANGED <<log, faults>>
       \/ /\ CanFail
          /\ faults' = faults + 1
          /\ log' = log \cup LogAndAlert("Error", "Could not scan directory",
                                         Top.entry.abs_path)
          /\ pc' = "reload"
          /\ UNCHANGED stack
    /\ UNCHANGED <<ui, args, transfer, top_i, one, files, dirs, result, hist>>

\* for entry in entries.iter(): break when aborted, else recurse with None
send_recurse_loop ==
    /\ pc = "dir_loop" /\ op = "send"
    /\ IF Top.i <= Len(Top.entries) /\ ~BreakWalk
       THEN LET entry == NextEntry(Top)
            IN  /\ stack' = Append(SetTop([Top EXCEPT !.i = @ + 1]),
                                   Frame(entry, DestPath(Top.path, entry, RecurseName)))
                /\ pc' = "recurse"
       ELSE /\ pc' = "reload"
            /\ UNCHANGED stack
    /\ UNCHANGED <<ui, args, transfer, top_i, one, files, dirs, result,
                   faults, log, hist>>

\* self.reload_remote_dir(); the abort alert; return
send_recurse_reload ==
    /\ pc = "reload" /\ op = "send"
    /\ hist' = [hist EXCEPT !.reloads = @ + 1]
    /\ log' = IF transfer.aborted
              THEN log \cup LogAndAlert("Warn", "Upload aborted", Top.entry.abs_path)
              ELSE log
    /\ stack' = Pop
    /\ pc' = AfterReturn
    /\ UNCHANGED <<ui, args, transfer, top_i, one, files, dirs, result, faults>>

(***************************************************************************)
(* Send: filetransfer_send_one                                             *)
(***************************************************************************)
\* self.host.open_file_read(local.abs_path)
send_one_open ==
    /\ pc = "one_open" /\ op = "send"
    /\ \/ /\ \E len \in Lengths(one.size) :
               /\ one' = [one EXCEPT !.avail = len]
               /\ faults' = IF len = one.size THEN faults ELSE faults + 1
          /\ pc' = "one_stream"
          /\ UNCHANGED hist
       \/ /\ CanFail
          /\ faults' = faults + 1
          /\ Fail("HostError")
    /\ UNCHANGED <<ui, args, transfer, stack, top_i, files, dirs, result, log>>

\* self.client.send_file(local, remote)
send_one_stream ==
    /\ pc = "one_stream" /\ op = "send"
    /\ \/ /\ files' = Create(files, one.dst)
          /\ hist' = [hist EXCEPT !.touched = @ \cup {one.dst}]
          /\ one' = [one EXCEPT !.rhnd = TRUE]
          /\ pc' = "one_seek"
          /\ UNCHANGED faults
       \/ /\ CanFail
          /\ faults' = faults + 1
          /\ Fail("FileTransferError")
          /\ UNCHANGED files
    /\ UNCHANGED <<ui, args, transfer, stack, top_i, dirs, result, log>>

\* file_size = fhnd.seek(End(0)).unwrap_or(0); self.transfer.partial.init(file_size)
send_one_seek ==
    /\ pc = "one_seek" /\ op = "send"
    /\ \/ /\ one' = [one EXCEPT !.file_size = one.avail]
          /\ transfer' = [transfer EXCEPT !.partial = ProgressInit(one.avail)]
          /\ UNCHANGED faults
       \/ /\ CanFail
          /\ faults' = faults + 1
          /\ one' = [one EXCEPT !.file_size = 0]
          /\ transfer' = [transfer EXCEPT !.partial = ProgressInit(0)]
    /\ pc' = "one_rewind"
    /\ UNCHANGED <<ui, args, stack, top_i, files, dirs, result, log, hist>>

\* fhnd.seek(Start(0)); total_bytes_written = 0; last_input_event_fetch = None
send_one_rewind ==
    /\ pc = "one_rewind" /\ op = "send"
    /\ \/ /\ pc' = "one_loop"
          /\ UNCHANGED <<one, faults, hist>>
       \/ /\ CanFail
          /\ faults' = faults + 1
          /\ Fail("CouldNotRewind")
    /\ UNCHANGED <<ui, args, transfer, stack, top_i, files, dirs, result, log>>

\* while total_bytes_written < file_size && !aborted: read_input_event() when never
\* fetched or 500 ms went by; the input handler may call transfer.abort()
send_one_loop ==
    /\ pc = "one_loop" /\ op = "send"
    /\ \/ /\ CopyGoesOn
          /\ \E key \in BOOLEAN :
               /\ transfer' = IF key THEN abort(transfer) ELSE transfer
               /\ hist' = IF key THEN [hist EXCEPT !.cut = one.dst] ELSE hist
          /\ one' = [one EXCEPT !.last_input_event_fetch = TRUE]
          /\ pc' = "one_read"
       \/ /\ ~CopyGoesOn
          /\ pc' = "one_finalize"
          /\ UNCHANGED <<transfer, one, hist>>
    /\ UNCHANGED <<ui, args, stack, top_i, files, dirs, result, faults, log>>

\* fhnd.read(&mut buffer); total_bytes_written += bytes_read
send_one_read ==
    /\ pc = "one_read" /\ op = "send"
    /\ \/ /\ \E n \in (IF one.avail = 0 THEN {0} ELSE 1..Min(BufSize, one.avail)) :
               /\ one' = [one EXCEPT !.total_bytes_written = @ + n, !.avail = @ - n,
                                     !.bytes_read = n, !.delta = 0,
                                     !.after = IF transfer.aborted /\ n > 0
                                               THEN @ + 1 ELSE @]
               /\ pc' = IF n = 0 THEN "one_loop" ELSE "one_write"
          /\ UNCHANGED <<faults, hist>>
       \/ /\ CanFail
          /\ faults' = faults + 1
          /\ Fail("LocalIoError")
    /\ UNCHANGED <<ui, args, transfer, stack, top_i, files, dirs, result, log>>

\* a slip: only the progress of the current file is increased
IncreaseProgressPartialOnly(t, delta) ==
    [t EXCEPT !.partial = update_progress(@, delta)]

\* "Increase progress": partial.update_progress(delta); full.update_progress(delta)
IncreaseProgress(t, delta) ==
    [t EXCEPT !.partial = update_progress(@, delta), !.full = update_progress(@, delta)]

\* while delta < bytes_read { ... }; after the loop the progress is increased
send_one_write ==
    /\ pc = "one_write" /\ op = "send"
    /\ IF one.delta < one.bytes_read
       THEN /\ pc' = "one_write_call"
            /\ UNCHANGED transfer
       ELSE /\ pc' = "one_loop"
            /\ transfer' = IncreaseProgress(transfer, one.delta)
    /\ UNCHANGED <<ui, args, stack, top_i, one, files, dirs, result, faults, log, hist>>

\* rhnd.write(&buffer[delta..bytes_read]): Ok(bytes) => delta += bytes
send_one_write_call ==
    /\ pc = "one_write_call" /\ op = "send"
    /\ \/ /\ \E bytes \in 0..(one.bytes_read - one.delta) :
               /\ files' = WriteBytes(files, one.dst, bytes)
               /\ one' = [one EXCEPT !.delta = @ + bytes]
          /\ pc' = "one_write"
          /\ UNCHANGED <<faults, hist>>
       \/ /\ CanFail
          /\ faults' = faults + 1
          /\ Fail("RemoteIoError")
          /\ UNCHANGED files
    /\ UNCHANGED <<ui, args, transfer, stack, top_i, dirs, result, log>>

\* self.client.on_sent(rhnd); Err(Abrupted) when aborted, else the file is saved
send_one_finalize ==
    /\ pc = "one_finalize" /\ op = "send"
    /\ \E sent_ok \in {TRUE} \cup (IF CanFail THEN {FALSE} ELSE {}) :
         /\ faults' = IF sent_ok THEN faults ELSE faults + 1
         /\ LET warned == IF sent_ok THEN log
                          ELSE log \cup Log("Warn", "Could not finalize remote stream", one.dst)
            IN  IF transfer.aborted
                THEN /\ one' = [one EXCEPT !.ret = "Abrupted", !.finalized = @ + 1]
                     /\ hist' = [hist EXCEPT !.failed = @ \cup {<<one.dst, "Abrupted">>}]
                     /\ pc' = "one_ret"
                     /\ log' = warned
                ELSE /\ one' = [one EXCEPT !.ret = "Ok", !.finalized = @ + 1]
                     /\ hist' = [hist EXCEPT !.sent = @ \cup {one.dst}]
                     /\ log' = warned \cup Log("Info", "Saved file", one.dst)
                     /\ pc' = "one_ret"
    /\ UNCHANGED <<ui, args, transfer, stack, top_i, files, dirs, result>>

\* another process appends to, or truncates, the file that is being read
SourceChanges ==
    /\ pc = "one_loop" /\ CanFail
    /\ one.total_bytes_written < one.file_size
    /\ \E len \in {one.avail + 1} \cup ({one.avail - 1} \ {-1}) :
         one' = [one EXCEPT !.avail = len]
    /\ faults' = faults + 1
    /\ UNCHANGED <<ui, pc, args, transfer, stack, top_i, files, dirs, result,
                   log, hist>>

(***************************************************************************)
(* Receive: entry points                                                   *)
(***************************************************************************)
\* the local_path a caller passes: the working directory, or for a single file the
\* path of the file itself (download_file_as_temp)
LocalPaths(p) ==
    {DstRoot} \cup (IF p.kind = "File" THEN {Append(DstRoot, p.entries[1].name)} ELSE {})

filetransfer_recv ==
    /\ pc = "idle"
    /\ \E p \in Payloads, n \in Names :
         /\ payload' = p
         /\ dst_name' = n
         /\ \E lp \in LocalPaths(p) : local_path' = lp
    /\ op' = "recv"
    /\ pc' = "dispatch"
    /\ UNCHANGED <<ui, transfer, stack, top_i, one, files, dirs, result, faults, log, hist>>

\* dst_name is not handed on; local_path is the path of the file
filetransfer_recv_file ==
    /\ pc = "dispatch" /\ op = "recv" /\ payload.kind = "File"
    /\ LET entry == payload.entries[1]
       IN  /\ transfer' = [ResetStates(transfer) EXCEPT !.full = ProgressInit(entry.size)]
           /\ one' = CallOne(entry, local_path)
    /\ pc' = "one_open"
    /\ UNCHANGED <<ui, args, stack, top_i, files, dirs, result, faults, log, hist>>

\* the caller's end of filetransfer_recv_one in filetransfer_recv_file
filetransfer_recv_file_result ==
    /\ pc = "one_ret" /\ op = "recv" /\ stack = <<>>
    /\ result' = one.ret
    /\ one' = NoOne
    /\ pc' = "done"
    /\ UNCHANGED <<ui, args, transfer, stack, top_i, files, dirs,
                   faults, log, hist>>

filetransfer_recv_any ==
    /\ pc = "dispatch" /\ op = "recv" /\ payload.kind = "Any"
    /\ \E F \in FailSets(payload.entries) :
         /\ transfer' = [ResetStates(transfer) EXCEPT !.full =
                ProgressInit(get_total_transfer_size_remote(payload.entries[1], F))]
         /\ log' = log \cup SizeLog(F)
         /\ faults' = faults + Cardinality(F)
         /\ hist' = [hist EXCEPT !.failing = F]
    /\ top_i' = 1
    /\ pc' = "top"
    /\ UNCHANGED <<ui, args, stack, one, files, dirs, result>>

filetransfer_recv_many ==
    /\ pc = "dispatch" /\ op = "recv" /\ payload.kind = "Many"
    /\ \E F \in FailSets(payload.entries) :
         /\ transfer' = [ResetStates(transfer) EXCEPT !.full =
                ProgressInit(SumSeq([i \in DOMAIN payload.entries |->
                    get_total_transfer_size_remote(payload.entries[i], F)]))]
         /\ log' = log \cup SizeLog(F)
         /\ faults' = faults + Cardinality(F)
         /\ hist' = [hist EXCEPT !.failing = F]
    /\ top_i' = 1
    /\ pc' = "top"
    /\ UNCHANGED <<ui, args, stack, one, files, dirs, result>>

\* the calls of filetransfer_recv_recurse made by filetransfer_recv_any (one call,
\* with dst_name) and filetransfer_recv_many (for_each, with None), then Ok(())
recv_each ==
    /\ pc = "top" /\ op = "recv"
    /\ IF top_i <= Len(payload.entries)
       THEN LET entry == payload.entries[top_i]
                name == IF payload.kind = "Any" THEN dst_name ELSE NoName
            IN  /\ stack' = <<Frame(entry, DestPath(local_path, entry, name))>>
                /\ top_i' = top_i + 1
                /\ pc' = "recurse"
                /\ UNCHANGED result
       ELSE /\ result' = AfterWalk
            /\ pc' = "done"
            /\ UNCHANGED <<stack, top_i>>
    /\ UNCHANGED <<ui, args, transfer, one, files, dirs, faults,
                   log, hist>>

(***************************************************************************)
(* Receive: filetransfer_recv_recurse                                      *)
(***************************************************************************)
\* the reasons after which the destination file is probed and removed
RecvCleanup(err) == err \in {"Abrupted", "LocalIoError"}

\* FsEntry::File: call filetransfer_recv_one
recv_recurse_file ==
    /\ pc = "recurse" /\ op = "recv" /\ Top.entry.kind = "File"
    /\ one' = CallOne(Top.entry, Top.path)
    /\ pc' = "one_open"
    /\ UNCHANGED <<ui, args, transfer, stack, top_i, files, dirs,
                   result, faults, log, hist>>

\* FsEntry::File: what follows the call of filetransfer_recv_one
recv_recurse_result ==
    /\ pc = "one_ret" /\ op = "recv" /\ stack # <<>>
    /\ IF one.ret = "Ok"
       THEN /\ pc' = "reload"
            /\ UNCHANGED log
       ELSE /\ log' = log \cup LogAndAlert("Error", "Could not download file", Top.path)
            /\ pc' = IF RecvCleanup(one.ret) THEN "stat" ELSE "reload"
    /\ one' = NoOne
    /\ UNCHANGED <<ui, args, transfer, stack, top_i, files, dirs,
                   result, faults, hist>>

\* self.host.stat(local_file_path)
recv_recurse_stat ==
    /\ pc = "stat" /\ op = "recv"
    /\ hist' = [hist EXCEPT !.probed = @ \cup {Top.path}]
    /\ \/ /\ Top.path \in DOMAIN files
          /\ pc' = "remove"
          /\ UNCHANGED <<log, faults>>
       \/ /\ Top.path \notin DOMAIN files \/ CanFail
          /\ faults' = IF Top.path \in DOMAIN files THEN faults + 1 ELSE faults
          /\ log' = log \cup CouldNotRemove(Top.path)
          /\ pc' = "reload"
    /\ UNCHANGED <<ui, args, transfer, stack, top_i, one, files,
                   dirs, result>>

\* self.host.remove(&entry)
recv_recurse_remove ==
    /\ pc = "remove" /\ op = "recv"
    /\ hist' = [hist EXCEPT !.removed = @ \cup {Top.path}]
    /\ \/ /\ files' = Remove(files, Top.path)
          /\ UNCHANGED <<log, faults>>
       \/ /\ CanFail
          /\ faults' = faults + 1
          /\ log' = log \cup CouldNotRemove(Top.path)
          /\ UNCHANGED files
    /\ pc' = "reload"
    /\ UNCHANGED <<ui, args, transfer, stack, top_i, one, dirs,
                   result>>

\* FsEntry::Directory: self.host.mkdir_ex(local_dir_path, true), which accepts a
\* directory that is already there, then chmod
recv_recurse_mkdir ==
    /\ pc = "recurse" /\ op = "recv" /\ Top.entry.kind = "Directory"
    /\ \/ /\ dirs' = dirs \cup {Top.path}
          /\ \E chmod_ok \in {TRUE} \cup (IF CanFail /\ Top.entry.unix_pex THEN {FALSE} ELSE {}) :
               /\ faults' = IF chmod_ok THEN faults ELSE faults + 1
               /\ hist' = [hist EXCEPT !.touched = @ \cup {Top.path},
                               !.chmod = IF Top.entry.unix_pex THEN @ \cup {Top.path} ELSE @,
                               !.existed = IF Top.path \in dirs THEN @ \cup {Top.path} ELSE @]
               /\ log' = log \cup Log("Info", "Created directory", Top.path) \cup
                         (IF chmod_ok THEN {}
                          ELSE Log("Error", "Could not apply file mode", Top.path))
          /\ pc' = "scan"
       \/ /\ CanFail
          /\ faults' = faults + 1
          /\ hist' = [hist EXCEPT !.touched = @ \cup {Top.path}, !.nodir = @ \cup {Top.path}]
          /\ log' = log \cup Log("Error", "Failed to create directory", Top.path)
          /\ pc' = "reload"
          /\ UNCHANGED dirs
    /\ UNCHANGED <<ui, args, transfer, stack, top_i, one, files,
                   result>>

\* self.client.list_dir(dir.abs_path)
recv_recurse_scan ==
    /\ pc = "scan" /\ op = "recv"
    /\ \/ /\ stack' = SetTop([Top EXCEPT !.entries = Listing(Top.entry.abs_path), !.i = 1])
          /\ pc' = "dir_loop"
          /\ UNCHANGED <<log, faults>>
       \/ /\ CanFail
          /\ faults' = faults + 1
          /\ log' = log \cup LogAndAlert("Error", "Could not scan directory",
                                         Top.entry.abs_path)
          /\ pc' = "reload"
          /\ UNCHANGED stack
    /\ UNCHANGED <<ui, args, transfer, top_i, one, files, dirs,
                   result, hist>>

\* for entry in entries.iter(): break when aborted, else recurse with None
recv_recurse_loop ==
    /\ pc = "dir_loop" /\ op = "recv"
    /\ IF Top.i <= Len(Top.entries) /\ ~BreakWalk
       THEN LET entry == NextEntry(Top)
            IN  /\ stack' = Append(SetTop([Top EXCEPT !.i = @ + 1]),
                                   Frame(entry, DestPath(Top.path, entry, RecurseName)))
                /\ pc' = "recurse"
       ELSE /\ pc' = "reload"
            /\ UNCHANGED stack
    /\ UNCHANGED <<ui, args, transfer, top_i, one, files, dirs,
                   result, faults, log, hist>>

\* self.reload_local_dir(); the abort alert; return
recv_recurse_reload ==
    /\ pc = "reload" /\ op = "recv"
    /\ hist' = [hist EXCEPT !.reloads = @ + 1]
    /\ log' = IF transfer.aborted
              THEN log \cup LogAndAlert("Warn", "Download aborted", Top.entry.abs_path)
              ELSE log
    /\ stack' = Pop
    /\ pc' = AfterReturn
    /\ UNCHANGED <<ui, args, transfer, top_i, one, files, dirs,
                   result, faults>>

(***************************************************************************)
(* Receive: filetransfer_recv_one                                          *)
(***************************************************************************)
\* self.host.open_file_write(local): a directory cannot be opened as a file
recv_one_open ==
    /\ pc = "one_open" /\ op = "recv"
    /\ \/ /\ one.dst # DstRoot /\ one.dst \notin dirs
          /\ files' = Create(files, one.dst)
          /\ hist' = [hist EXCEPT !.touched = @ \cup {one.dst}]
          /\ pc' = "one_stream"
          /\ UNCHANGED <<one, faults>>
       \/ /\ one.dst = DstRoot \/ one.dst \in dirs \/ CanFail
          /\ faults' = IF one.dst = DstRoot \/ one.dst \in dirs THEN faults ELSE faults + 1
          /\ Fail("HostError")
          /\ UNCHANGED files
    /\ UNCHANGED <<ui, args, transfer, stack, top_i, dirs, result, log>>

\* self.client.recv_file(remote); self.transfer.partial.init(remote.size)
recv_one_stream ==
    /\ pc = "one_stream" /\ op = "recv"
    /\ \/ /\ \E len \in Lengths(one.size) :
               /\ one' = [one EXCEPT !.avail = len, !.file_size = one.size, !.rhnd = TRUE]
               /\ faults' = IF len = one.size THEN faults ELSE faults + 1
          /\ transfer' = [transfer EXCEPT !.partial = ProgressInit(one.size)]
          /\ pc' = "one_loop"
          /\ UNCHANGED hist
       \/ /\ CanFail
          /\ faults' = faults + 1
          /\ Fail("FileTransferError")
          /\ UNCHANGED transfer
    /\ UNCHANGED <<ui, args, stack, top_i, files, dirs, result, log>>

\* while total_bytes_written < remote.size && !aborted: read_input_event() when never
\* fetched or 500 ms went by; the input handler may call transfer.abort()
recv_one_loop ==
    /\ pc = "one_loop" /\ op = "recv"
    /\ \/ /\ CopyGoesOn
          /\ \E key \in BOOLEAN :
               /\ transfer' = IF key THEN abort(transfer) ELSE transfer
               /\ hist' = IF key THEN [hist EXCEPT !.cut = one.dst] ELSE hist
          /\ one' = [one EXCEPT !.last_input_event_fetch = TRUE]
          /\ pc' = "one_read"
       \/ /\ ~CopyGoesOn
          /\ pc' = "one_finalize"
          /\ UNCHANGED <<transfer, one, hist>>
    /\ UNCHANGED <<ui, args, stack, top_i, files, dirs, result, faults, log>>

\* rhnd.read(&mut buffer); total_bytes_written += bytes_read
recv_one_read ==
    /\ pc = "one_read" /\ op = "recv"
    /\ \/ /\ \E n \in (IF one.avail = 0 THEN {0} ELSE 1..Min(BufSize, one.avail)) :
               /\ one' = [one EXCEPT !.total_bytes_written = @ + n, !.avail = @ - n,
                                     !.bytes_read = n, !.delta = 0,
                                     !.after = IF transfer.aborted /\ n > 0
                                               THEN @ + 1 ELSE @]
               /\ pc' = IF n = 0 THEN "one_loop" ELSE "one_write"
          /\ UNCHANGED <<faults, hist>>
       \/ /\ CanFail
          /\ faults' = faults + 1
          /\ Fail("RemoteIoError")
    /\ UNCHANGED <<ui, args, transfer, stack, top_i, files, dirs, result, log>>

\* a slip: only the progress of the current file is set
SetProgressPartialOnly(t, delta) ==
    [t EXCEPT !.partial = update_progress(@, delta)]

\* "Set progress": partial.update_progress(delta); full.update_progress(delta)
SetProgress(t, delta) ==
    [t EXCEPT !.partial = update_progress(@, delta), !.full = update_progress(@, delta)]

\* while delta < bytes_read { ... }; after the loop the progress is set
recv_one_write ==
    /\ pc = "one_write" /\ op = "recv"
    /\ IF one.delta < one.bytes_read
       THEN /\ pc' = "one_write_call"
            /\ UNCHANGED transfer
       ELSE /\ pc' = "one_loop"
            /\ transfer' = SetProgress(transfer, one.delta)
    /\ UNCHANGED <<ui, args, stack, top_i, one, files, dirs, result, faults, log, hist>>

\* local_file.write(&buffer[delta..bytes_read]): Ok(bytes) => delta += bytes
recv_one_write_call ==
    /\ pc = "one_write_call" /\ op = "recv"
    /\ \/ /\ \E bytes \in 0..(one.bytes_read - one.delta) :
               /\ files' = WriteBytes(files, one.dst, bytes)
               /\ one' = [one EXCEPT !.delta = @ + bytes]
          /\ pc' = "one_write"
          /\ UNCHANGED <<faults, hist>>
       \/ /\ CanFail
          /\ faults' = faults + 1
          /\ Fail("LocalIoError")
          /\ UNCHANGED files
    /\ UNCHANGED <<ui, args, transfer, stack, top_i, dirs, result, log>>

\* a slip: the error of chmod is handed to the caller
AfterChmodStrict(chmod_ok) == IF chmod_ok THEN "Ok" ELSE "HostError"

\* what filetransfer_recv_one returns once chmod was tried: `if let Err(err) =
\* self.host.chmod(..) { self.log(..) }` falls through to Ok(())
AfterChmod(chmod_ok) == "Ok"

\* self.client.on_recv(rhnd); Err(Abrupted) when aborted, else chmod and the file
\* is saved
recv_one_finalize ==
    /\ pc = "one_finalize" /\ op = "recv"
    /\ \E recv_ok \in {TRUE} \cup (IF CanFail THEN {FALSE} ELSE {}) :
         LET warned == IF recv_ok THEN log
                       ELSE log \cup Log("Warn", "Could not finalize remote stream", one.dst)
             used == IF recv_ok THEN faults ELSE faults + 1
         IN  IF transfer.aborted
             THEN /\ one' = [one EXCEPT !.ret = "Abrupted", !.finalized = @ + 1]
                  /\ hist' = [hist EXCEPT !.failed = @ \cup {<<one.dst, "Abrupted">>}]
                  /\ pc' = "one_ret"
                  /\ log' = warned
                  /\ faults' = used
             ELSE \E chmod_ok \in {TRUE} \cup
                                  (IF used < MaxFaults /\ one.pex THEN {FALSE} ELSE {}) :
                    /\ faults' = IF chmod_ok THEN used ELSE used + 1
                    /\ one' = [one EXCEPT !.ret = AfterChmod(chmod_ok), !.finalized = @ + 1]
                    /\ hist' = [hist EXCEPT !.sent = @ \cup {one.dst},
                                    !.chmod = IF one.pex THEN @ \cup {one.dst} ELSE @]
                    /\ log' = warned \cup Log("Info", "Saved file", one.dst) \cup
                              (IF chmod_ok THEN {}
                               ELSE Log("Error", "Could not apply file mode", one.dst))
                    /\ pc' = "one_ret"
    /\ UNCHANGED <<ui, args, transfer, stack, top_i, files, dirs, result>>

Next ==
    \/ filetransfer_send
    \/ filetransfer_send_file
    \/ filetransfer_send_file_result
    \/ filetransfer_send_any
    \/ filetransfer_send_many
    \/ send_each
    \/ send_recurse_file
    \/ send_recurse_result
    \/ send_recurse_stat
    \/ send_recurse_remove
    \/ send_recurse_mkdir
    \/ send_recurse_scan
    \/ send_recurse_loop
    \/ send_recurse_reload
    \/ send_one_open
    \/ send_one_stream
    \/ send_one_seek
    \/ send_one_rewind
    \/ send_one_loop
    \/ send_one_read
    \/ send_one_write
    \/ send_one_write_call
    \/ send_one_finalize
    \/ filetransfer_recv
    \/ filetransfer_recv_file
    \/ filetransfer_recv_file_result
    \/ filetransfer_recv_any
    \/ filetransfer_recv_many
    \/ recv_each
    \/ recv_recurse_file
    \/ recv_recurse_result
    \/ recv_recurse_stat
    \/ recv_recurse_remove
    \/ recv_recurse_mkdir
    \/ recv_recurse_scan
    \/ recv_recurse_loop
    \/ recv_recurse_reload
    \/ recv_one_open
    \/ recv_one_stream
    \/ recv_one_loop
    \/ recv_one_read
    \/ recv_one_write
    \/ recv_one_write_call
    \/ recv_one_finalize
    \/ SourceChanges

Spec == Init /\ [][Next]_vars

\* the program keeps running: a step that can be taken is taken
FairSpec == Spec /\ WF_vars(Next)

(***************************************************************************)
(* Properties of the transfer engine                                       *)
(***************************************************************************)
Done == pc = "done"

\* the payload names exactly one file
SingleFile == Len(payload.entries) = 1 /\ payload.entries[1].kind = "File"

\* name under which a top-level entry is stored
TopName(e) == IF payload.kind = "Any" /\ dst_name # NoName THEN dst_name ELSE e.name

\* destination of the source path src below the top-level entry e: local_path joined
\* with the path of src relative to the parent of e
DestOf(e, src) ==
    Append(local_path, TopName(e)) \o SubSeq(src, Len(e.abs_path) + 1, Len(src))

RECURSIVE SumSizes(_)
SumSizes(S) ==
    IF S = {} THEN 0
    ELSE LET e == CHOOSE x \in S : TRUE IN e.size + SumSizes(S \ {e})

\* the files of the payload, at any depth
PayloadFiles == UNION {FilesBelow(e) : e \in Range(payload.entries)}

\* C1: when a send returns after cancellation was observed while a file was being
\* sent (and no provider call failed), the partially written remote file does not
\* exist any more and every file completely sent before is still on the remote,
\* for every payload kind.
C1_SendAbortRemovesPartial ==
    (Done /\ op = "send" /\ hist.cut # NoPath /\ faults = 0)
        => /\ hist.cut \notin DOMAIN files
           /\ hist.cut \in hist.probed /\ hist.cut \in hist.removed
           /\ hist.sent \subseteq DOMAIN files

\* C2: when a single file is received (File or Any payload) and cancellation is
\* observed during its copy, the receive returns the Abrupted error and no
\* partial local file is left behind.
C2_RecvAbortErrAndNoPartial ==
    (Done /\ op = "recv" /\ SingleFile /\ payload.kind \in {"File", "Any"}
          /\ hist.cut # NoPath /\ faults = 0)
        => /\ result = "Abrupted"
           /\ hist.cut \notin DOMAIN files

\* C3: once the abort flag is true, no step of the running invocation opens a
\* further destination stream or creates a further destination directory.
C3_NothingStartedAfterAbort ==
    [][transfer.aborted => hist'.touched = hist.touched]_vars

\* C4: when a send has returned, every file whose transfer failed was probed on
\* the remote if and only if the reason was Abrupted or RemoteIoError, and a
\* remove was issued only for such a file.
C4_SendCleanupIffAbruptedOrRemoteIo ==
    (Done /\ op = "send")
        => \A f \in hist.failed :
              /\ (f[1] \in hist.probed) <=> (f[2] \in {"Abrupted", "RemoteIoError"})
              /\ (f[1] \in hist.removed) => (f[2] \in {"Abrupted", "RemoteIoError"})

\* C5: when a receive has returned, every file whose transfer failed was probed on
\* the local side if and only if the reason was Abrupted or LocalIoError, and a
\* remove was issued only for such a file.
C5_RecvCleanupIffAbruptedOrLocalIo ==
    (Done /\ op = "recv")
        => \A f \in hist.failed :
              /\ (f[1] \in hist.probed) <=> (f[2] \in {"Abrupted", "LocalIoError"})
              /\ (f[1] \in hist.removed) => (f[2] \in {"Abrupted", "LocalIoError"})

\* C6: at every point of an invocation partial.transferred <= partial.total and
\* full.transferred <= full.total, also with stale sizes and with a scan that
\* failed while sizes were summed.
C6_TransferredWithinTotal ==
    /\ transfer.partial.written <= transfer.partial.total
    /\ transfer.full.written <= transfer.full.total

\* an invocation for one file that ran without cancellation, provider failure or
\* stale size
CleanSingleFile == SingleFile /\ faults = 0 /\ ~transfer.aborted /\ hist.failed = {}

\* C7: full.transferred never decreases after full.init, and when the transfer of
\* a single file of size S returns without cancellation and without error,
\* full.transferred is exactly S and the progress ratio is 1.
C7_FullReachesSize ==
    [][/\ pc # "dispatch" => transfer'.full.written >= transfer.full.written
       /\ (pc' = "done" /\ CleanSingleFile')
            => /\ transfer'.full.written = payload.entries[1].size
               /\ calc_progress(transfer'.full) = 1000
               /\ calc_progress(transfer'.partial) = 1000]_vars

C7_Witness ==
    /\ Done /\ CleanSingleFile /\ result = "Ok"
    /\ transfer.full.written = 2

\* C8: when every scan succeeds, the total given to full.init is the sum of the
\* sizes of all files of the payload at any depth, for Any and Many payloads, on
\* send and on receive.
C8_TotalIsSumOfFiles ==
    (pc \notin {"idle", "dispatch"} /\ payload.kind \in {"Any", "Many"}
        /\ hist.failing = {})
        => transfer.full.total = SumSizes(PayloadFiles)

C8_Witness ==
    /\ pc = "top" /\ top_i = 1 /\ payload.kind = "Many" /\ hist.failing = {}
    /\ transfer.full.total = 7 /\ Cardinality(PayloadFiles) = 4

\* C9: after a send of directory trees without error and without cancellation,
\* every file below a sent directory exists (completely) at the destination
\* directory joined with its path relative to the parent of the sent directory,
\* every directory below it exists on the remote, and full.transferred equals
\* full.total; a rename hint replaces the name of the sent directory.
C9_TreeArrives ==
    (Done /\ op = "send" /\ faults = 0 /\ ~transfer.aborted)
        => /\ \A e \in Range(payload.entries) :
                e.kind = "Directory" =>
                    /\ \A f \in FilesBelow(e) :
                          /\ DestOf(e, f.abs_path) \in DOMAIN files
                          /\ files[DestOf(e, f.abs_path)] = f.size
                    /\ \A d \in DirsBelow(e) : DestOf(e, d) \in dirs
           /\ transfer.full.written = transfer.full.total

C9_Witness ==
    /\ Done /\ op = "send" /\ faults = 0 /\ ~transfer.aborted
    /\ payload.kind = "Any" /\ payload.entries[1].kind = "Directory"
    /\ dst_name = NoName
    /\ <<"dst", "d", "s", "c">> \in hist.sent
    /\ transfer.full.written = 5

IsPrefix(d, p) == Len(d) <= Len(p) /\ SubSeq(p, 1, Len(d)) = d

\* the files that lie below a directory whose scan failed while sizes were summed
Unsized == {f \in PayloadFiles : \E d \in hist.failing : IsPrefix(d, f.abs_path)}

\* C10: a directory whose scan fails while sizes are summed contributes 0 to
\* full.total and the failure is logged; every other entry is counted; and when
\* nothing else fails and nobody cancels, every entry outside that directory is
\* transferred.
C10_FailedScanCountsZero ==
    (pc \notin {"idle", "dispatch"} /\ payload.kind \in {"Any", "Many"})
        => /\ transfer.full.total = SumSizes(PayloadFiles \ Unsized)
           /\ \A d \in hist.failing :
                 Line("Error", FALSE, "Could not list directory", d) \in log
           /\ (Done /\ faults = Cardinality(hist.failing) /\ ~transfer.aborted)
                 => \A e \in Range(payload.entries) :
                       \A f \in FilesBelow(e) \ Unsized :
                          DestOf(e, f.abs_path) \in hist.sent

C10_Witness ==
    /\ Done /\ hist.failing = {<<"src", "d", "s">>} /\ ~transfer.aborted
    /\ transfer.full.total = 4
    /\ {<<"dst", "d", "a">>, <<"dst", "d", "b">>, <<"dst", "t">>} \subseteq hist.sent

\* the source paths at and below a top-level entry
SrcBelow(e) == {f.abs_path : f \in FilesBelow(e)} \cup DirsBelow(e)

\* the destination paths whose transfer failed
FailedPaths == {f[1] : f \in hist.failed}

\* C11: when the destination directory of a Directory entry already exists (mkdir
\* answers DirectoryAlreadyExists on send, the directory is present on receive),
\* the walk descends all the same: after an invocation without failure and without
\* cancellation every file of that directory has arrived completely and every
\* directory in it was created or found.
C11_ExistingDirStillWalked ==
    (Done /\ faults = 0 /\ ~transfer.aborted)
        => \A e \in Range(payload.entries) : \A d \in DirsBelow(e) :
              DestOf(e, d) \in hist.existed
                  => \A c \in Range(Listing(d)) :
                        LET p == DestOf(e, c.abs_path)
                        IN  IF c.kind = "File"
                            THEN p \in hist.sent /\ p \in DOMAIN files /\ files[p] = c.size
                            ELSE p \in hist.touched /\ p \in dirs

C11_Witness ==
    /\ Done /\ op = "send" /\ faults = 0 /\ ~transfer.aborted
    /\ {<<"dst", "d">>, <<"dst", "d", "s">>} \subseteq hist.existed
    /\ {<<"dst", "d", "a">>, <<"dst", "d", "s", "c">>, <<"dst", "d", "b">>} \subseteq hist.sent

\* C12: when the creation of a destination directory fails with an error other
\* than already-exists, the failure is logged, nothing below that directory is
\* opened or created, and every entry outside it is still transferred.
C12_FailedMkdirSkipsSubtree ==
    (Done /\ ~transfer.aborted /\ hist.nodir # {} /\ faults = Cardinality(hist.nodir))
        => /\ \A d \in hist.nodir :
                 \E l \in log : /\ l.lvl = "Error" /\ l.path = d
                                /\ l.msg = "Failed to create directory"
           /\ \A e \in Range(payload.entries) : \A x \in SrcBelow(e) :
                 LET p == DestOf(e, x)
                 IN  IF \E d \in hist.nodir : IsPrefix(d, p) /\ d # p
                     THEN p \notin hist.touched /\ p \notin hist.sent
                     ELSE p \in hist.touched
           /\ \A e \in Range(payload.entries) : \A f \in FilesBelow(e) :
                 LET p == DestOf(e, f.abs_path)
                 IN  (\A d \in hist.nodir : ~IsPrefix(d, p)) => p \in hist.sent

C12_Witness ==
    /\ Done /\ ~transfer.aborted /\ payload.kind = "Many"
    /\ hist.nodir = {<<"dst", "d", "s">>} /\ faults = 1
    /\ <<"dst", "d", "s", "c">> \notin hist.touched
    /\ {<<"dst", "d", "a">>, <<"dst", "d", "b">>, <<"dst", "t">>} \subseteq hist.sent

\* C13: the rename hint is applied to the top-level entry only: every path the
\* invocation opens or creates is the destination directory, the name of the
\* top-level entry (the hint, when one is given and the payload is not a Many
\* batch) and below it the source names; a Many batch never uses the hint.
C13_RenameOnlyTopLevel ==
    /\ payload.kind \in {"Any", "Many"}
          => hist.touched \subseteq
                UNION {{DestOf(e, x) : x \in SrcBelow(e)} : e \in Range(payload.entries)}
    /\ (payload.kind = "Many" /\ dst_name # NoName)
          => \A p \in hist.touched : \A i \in DOMAIN p : p[i] # dst_name
    /\ (payload.kind = "File" /\ op = "send")
          => hist.touched \subseteq {DestPath(local_path, payload.entries[1], dst_name)}

C13_Witness ==
    /\ Done /\ payload.kind = "Any" /\ dst_name = "r" /\ faults = 0 /\ ~transfer.aborted
    /\ {<<"dst", "r">>, <<"dst", "r", "s">>} \subseteq dirs
    /\ {<<"dst", "r", "a">>, <<"dst", "r", "s", "c">>, <<"dst", "r", "b">>} \subseteq hist.sent

\* C14: a file whose transfer fails for a reason other than cancellation gets a
\* log line with an alert, and the walk goes on: when nothing but file transfers
\* failed and nobody cancelled, every file of an Any or Many payload was either
\* transferred or is one of the failed ones; a File payload hands the reason to
\* its caller.
C14_FileFailureDoesNotStopWalk ==
    /\ (Done /\ payload.kind \in {"Any", "Many"} /\ ~transfer.aborted
             /\ faults = Cardinality(hist.failed))
          => /\ \A f \in hist.failed :
                   Line("Error", TRUE,
                        IF op = "send" THEN "Failed to upload file"
                        ELSE "Could not download file", f[1]) \in log
             /\ \A e \in Range(payload.entries) : \A x \in FilesBelow(e) :
                   DestOf(e, x.abs_path) \in hist.sent \cup FailedPaths
    /\ (Done /\ payload.kind = "File") => \A f \in hist.failed : result = f[2]

C14_Witness ==
    /\ Done /\ op = "send" /\ payload.kind = "Many" /\ ~transfer.aborted
    /\ hist.failed = {<<(<<"dst", "d", "a">>), "HostError">>}
    /\ {<<"dst", "d", "s", "c">>, <<"dst", "d", "b">>, <<"dst", "t">>} \subseteq hist.sent

\* C15: within an invocation the abort flag never goes from true back to false,
\* and every invocation (File, Any, Many; send and receive) resets it as its first
\* step, before any provider was touched, so that a flag left by a cancelled
\* invocation is cleared.
C15_AbortedSticksUntilReset ==
    [][/\ (pc \notin {"idle", "dispatch"} /\ transfer.aborted) => transfer'.aborted
       /\ pc = "dispatch"
            => /\ ~transfer'.aborted
               /\ hist.touched = {} /\ faults = 0 /\ log = {}]_vars

\* an invocation was called while the flag of a cancelled one is still set
C15_Witness ==
    /\ pc = "dispatch" /\ op = "recv" /\ payload.kind = "Many"
    /\ transfer.aborted /\ files = OldFiles

\* C16: user input is polled at least once during the transfer of every file that
\* is transferred, whatever its size.
C16_PolledOncePerFile ==
    (pc = "one_ret" /\ one.ret = "Ok") => one.last_input_event_fetch

\* C17: once the remote stream of a file is open, its finalization hook has been
\* called exactly once when the per-file transfer returns, on every exit path.
C17_FinalizedOnEveryExit ==
    (pc = "one_ret" /\ one.rhnd) => one.finalized = 1

\* C18: once cancellation was requested during the copy of a file, the invocation
\* eventually returns (every provider call returns, the program keeps running).
C18_CancelReturns == (hist.cut # NoPath) ~> Done

SameTop(p, q) ==
    /\ Len(p) > Len(local_path) /\ Len(q) > Len(local_path)
    /\ p[Len(local_path) + 1] = q[Len(local_path) + 1]

\* C20: after cancellation was observed at a file inside a directory, nothing more
\* is opened or created at or below the same top-level entry, and no file that was
\* completely transferred before is removed or changed.
C20_AbortStopsSubtreeKeepsDone ==
    [][(hist.cut # NoPath /\ Len(hist.cut) > Len(local_path) + 1)
          => /\ \A p \in hist'.touched \ hist.touched : ~SameTop(p, hist.cut)
             /\ \A p \in hist.sent : /\ p \in DOMAIN files /\ p \in DOMAIN files'
                                     /\ files'[p] = files[p]]_vars

C20_Witness ==
    /\ Done /\ faults = 0 /\ hist.cut = <<"dst", "d", "s", "c">>
    /\ <<"dst", "d", "a">> \in hist.sent /\ <<"dst", "d", "a">> \in DOMAIN files
    /\ <<"dst", "d", "b">> \notin hist.touched
    /\ hist.cut \in hist.removed /\ hist.cut \notin DOMAIN files

\* C21: for every payload kind of send, each top-level entry that was handled is
\* followed by a reload of the remote directory before the invocation returns:
\* when send has returned, the listing was reloaded at least once per entry.
C21_ReloadAfterEveryEntry ==
    (Done /\ op = "send") => hist.reloads >= Len(payload.entries)

\* the name a top-level entry is stored under: the rename hint when one is given
\* (a Many batch has none), otherwise the entry's own name
HintOf(kind) == IF kind = "Many" THEN NoName ELSE dst_name

\* C22: for every payload kind, receive stores a top-level entry at the path
\* passed as local directory joined with the rename hint when one is given,
\* otherwise with the entry's own name.
C22_RecvJoinsLocalDir ==
    /\ (op = "recv" /\ pc = "one_open" /\ stack = <<>>)
          => one.dst = DestPath(local_path, payload.entries[1], HintOf(payload.kind))
    /\ (op = "recv" /\ Len(stack) = 1)
          => stack[1].path = DestPath(local_path, stack[1].entry, HintOf(payload.kind))

\* C23: when the transfer of a file fails with FileTransferError (the provider
\* could not open the stream), that attempt has neither created nor truncated
\* nor written the destination file, on send and on receive.
C23_StreamErrorWritesNothing ==
    (pc = "one_ret" /\ one.ret = "FileTransferError") => one.dst \notin hist.touched

\* C26: where the engine reads the progress ratio (after the counters were
\* updated in the copy loop), the ratio of the partial and of the full counter is
\* within [0, 1], and it is 1 when the counter's total is 0.
C26_RatioWithinUnit ==
    pc = "one_loop"
        => \A p \in {transfer.partial, transfer.full} :
              /\ calc_progress(p) \in 0..1000
              /\ p.total = 0 => calc_progress(p) = 1000

\* the paths whose chmod failed
ChmodFailed == {l.path : l \in {x \in log : x.msg = "Could not apply file mode"}}

\* C24: on receive the permission triple is applied to a local file only after its
\* copy completed without error and without cancellation, and to a local directory
\* only after it was created; a chmod that fails is logged without an alert, the
\* transfer of that entry still returns Ok, and the remaining entries are processed.
C24_ChmodAfterSuccessBestEffort ==
    /\ op = "recv"
          => \A p \in hist.chmod :
                /\ p \in hist.sent \cup dirs
                /\ p \notin FailedPaths \cup hist.nodir
                /\ p # hist.cut
                /\ p \in hist.sent => p \in DOMAIN files
    /\ \A p \in ChmodFailed :
          /\ p \in hist.chmod
          /\ Line("Error", FALSE, "Could not apply file mode", p) \in log
    /\ (pc = "one_ret" /\ op = "recv" /\ one.dst \in ChmodFailed) => one.ret = "Ok"
    /\ (Done /\ op = "recv" /\ payload.kind \in {"Any", "Many"} /\ ~transfer.aborted
             /\ faults = Cardinality(ChmodFailed))
          => /\ result = "Ok"
             /\ \A e \in Range(payload.entries) : \A x \in FilesBelow(e) :
                   DestOf(e, x.abs_path) \in hist.sent

C24_Witness ==
    /\ Done /\ op = "recv" /\ payload.kind = "Many" /\ result = "Ok"
    /\ ChmodFailed = {<<"dst", "d", "s", "c">>}
    /\ {<<"dst", "d", "s", "c">>, <<"dst", "d", "b">>, <<"dst", "t">>} \subseteq hist.sent
    /\ {<<"dst", "d">>, <<"dst", "d", "s", "c">>, <<"dst", "t">>} \subseteq hist.chmod

\* the cleanup of a partially written file fails in this step: the stat probe
\* answers with an error, or the remove call leaves the file where it is
CleanupFails ==
    \/ pc = "stat" /\ pc' = "reload"
    \/ pc = "remove" /\ Top.path \in DOMAIN files'

\* C25: when the removal of a partially written destination file fails (stat or
\* remove returns an error), exactly one log line without alert is added and
\* nothing else changes: the walk goes on to the reload as after a removal that
\* worked, and neither the result nor the transfer states nor the destination
\* are touched; an Any or Many invocation still returns Ok.
C25_CleanupFailureOnlyLogs ==
    [][CleanupFails
          => /\ log' = log \cup {Line("Error", FALSE, "Could not remove created file",
                                       Top.path)}
             /\ Cardinality(log') = Cardinality(log) + 1
             /\ pc' = "reload"
             /\ UNCHANGED <<stack, top_i, one, result, transfer, files, dirs>>]_vars

\* a removal failed after a cancellation and the batch went on with its next entry
C25_Witness ==
    /\ Done /\ payload.kind = "Many" /\ result = "Ok"
    /\ hist.cut = <<"dst", "d", "a">> /\ hist.cut \in hist.removed
    /\ hist.cut \in DOMAIN files
    /\ Line("Error", FALSE, "Could not remove created file", hist.cut) \in log
    /\ <<"dst", "t">> \in hist.touched /\ hist.reloads >= 2

\* the destination paths of the entry e below the top-level entry top, and of a
\* listing es, in depth-first listing order
RECURSIVE WalkOrder(_, _), WalkOrderSeq(_, _)
WalkOrder(top, e) ==
    <<DestOf(top, e.abs_path)>> \o
        (IF e.kind = "File" THEN <<>> ELSE WalkOrderSeq(top, Listing(e.abs_path)))

WalkOrderSeq(top, es) ==
    IF es = <<>> THEN <<>> ELSE WalkOrder(top, Head(es)) \o WalkOrderSeq(top, Tail(es))

\* the destination paths of the whole payload, in the order of the batch
RECURSIVE PayloadOrder(_)
PayloadOrder(es) ==
    IF es = <<>> THEN <<>> ELSE WalkOrder(Head(es), Head(es)) \o PayloadOrder(Tail(es))

\* position of a destination path in the order of the batch
Rank(p) ==
    LET o == PayloadOrder(payload.entries)
    IN  IF \E i \in DOMAIN o : o[i] = p THEN CHOOSE i \in DOMAIN o : o[i] = p ELSE 0

\* destination files that were opened or created and whose transfer has not returned
InFlight == (hist.touched \ (dirs \cup hist.nodir)) \ (hist.sent \cup FailedPaths)

\* the file in flight is the one filetransfer_*_one is working on, with its stream
OneAtATime ==
    /\ Cardinality(InFlight) <= 1
    /\ InFlight \subseteq {one.dst}
    /\ one.rhnd => pc \in {"one_seek", "one_rewind", "one_loop", "one_read", "one_write",
                           "one_write_call", "one_finalize", "one_ret"}

\* C27: entries are transferred strictly one at a time in depth-first listing
\* order: at most one destination file is in flight, it is the file whose handles
\* the per-file transfer holds, and a path is opened or created only when no other
\* file is in flight and every path opened or created before comes earlier in the
\* depth-first order of the payload (so a directory's subtree is finished before
\* its next sibling is started).
C27_SequentialDepthFirst ==
    [][/\ OneAtATime /\ OneAtATime'
       /\ \A p \in hist'.touched \ hist.touched :
             /\ InFlight = {}
             /\ payload.kind \in {"Any", "Many"}
                   => /\ Rank(p) > 0
                      /\ \A q \in hist.touched : Rank(q) < Rank(p)]_vars

C27_Witness ==
    /\ Done /\ payload.kind = "Many" /\ hist.existed = {}
    /\ hist.touched = Range(PayloadOrder(payload.entries))
    /\ Cardinality(hist.touched) = 6
    /\ Cardinality(hist.sent) = 4

(***************************************************************************)
(* The transfer engine while the rest of the user interface is at work     *)
(***************************************************************************)
\* no invocation of the engine has run
NoTransfer ==
    /\ op = "none"
    /\ payload = [kind |-> "Many", entries |-> <<>>]
    /\ dst_name = NoName
    /\ local_path = DstRoot
    /\ transfer = [aborted |-> FALSE, full |-> ProgressStates, partial |-> ProgressStates]
    /\ stack = <<>>
    /\ top_i = 1
    /\ one = NoOne
    /\ files = NoFiles
    /\ dirs = {}
    /\ result = "none"
    /\ faults = 0
    /\ hist = NoHist

\* no invocation of the engine is running and none has run
EngineAtRest == pc = "idle" /\ log = {} /\ NoTransfer

\* what the engine keeps of a transfer
transfers == <<args, transfer, stack, top_i, one, files, dirs, result, faults, hist>>

engine == <<pc, log, transfers>>

(***************************************************************************)
(* Bookmark list component (src/src/ui/components/bookmark_list.rs)        *)
(***************************************************************************)
\* the steps of PageDown and PageUp: `for _ in 0..8`
PageSize == 8

\* BookmarkListPropsBuilder::with_bookmarks: Props that hold n bookmarks
with_bookmarks(n) == [some |-> TRUE, vec |-> [i \in 1..n |-> i]]

\* the Props a list is built from, or updated with
PropsSet == {NoProps} \cup {with_bookmarks(n) : n \in 0..MaxBookmarks}

\* BookmarkList::bookmarks_len: 0 without PROP_BOOKMARKS, else the length of the Vec
bookmarks_len(p) == IF ~p.some THEN 0 ELSE Len(p.vec)

\* OwnStates::set_list_len
set_list_len(s, len) == [s EXCEPT !.list_len = len]

\* a slip: the index may step onto list_len
incr_list_index_through(s) ==
    IF s.list_index + 1 <= s.list_len THEN [s EXCEPT !.list_index = @ + 1] ELSE s

\* OwnStates::incr_list_index: if self.list_index + 1 < self.list_len
incr_list_index(s) ==
    IF s.list_index + 1 < s.list_len THEN [s EXCEPT !.list_index = @ + 1] ELSE s

\* OwnStates::decr_list_index: if self.list_index > 0
decr_list_index(s) ==
    IF s.list_index > 0 THEN [s EXCEPT !.list_index = @ - 1] ELSE s

\* a slip: the index is left where it was
reset_list_index_kept(s) == s

\* OwnStates::reset_list_index
reset_list_index(s) == [s EXCEPT !.list_index = 0]

\* for _ in 0..n { self.states.incr_list_index() }
RECURSIVE incr_times(_, _)
incr_times(n, s) == IF n = 0 THEN s ELSE incr_times(n - 1, incr_list_index(s))

\* for _ in 0..n { self.states.decr_list_index() }
RECURSIVE decr_times(_, _)
decr_times(n, s) == IF n = 0 THEN s ELSE decr_times(n - 1, decr_list_index(s))

\* BookmarkList::new: default states, list_len from the props
BookmarkList_new(p) == set_list_len(OwnStatesDefault, bookmarks_len(p))

\* BookmarkList::get_state: Payload::One(Value::Usize(list_index))
get_state(s) == s.list_index

\* Msg::OnSubmit(payload)
OnSubmit(index) == [kind |-> "OnSubmit", key |-> "-", index |-> index]

\* Msg::OnKey(key)
OnKey(key) == [kind |-> "OnKey", key |-> key, index |-> 0]

\* key codes the component handles, two it hands back, and an event that is no key
Keys == {"Down", "Up", "PageDown", "PageUp", "Enter", "Tab", "Esc"}

Events == Keys \cup {"Resize"}

\* BookmarkList::on(ev)
on ==
    /\ \E ev \in Events :
         /\ states' = CASE ev = "Down" -> incr_list_index(states)
                        [] ev = "Up" -> decr_list_index(states)
                        [] ev = "PageDown" -> incr_times(PageSize, states)
                        [] ev = "PageUp" -> decr_times(PageSize, states)
                        [] OTHER -> states
         /\ returned' = CASE ev \in {"Down", "Up", "PageDown", "PageUp"} -> MsgNone
                          [] ev = "Enter" -> OnSubmit(get_state(states))
                          [] ev \in Keys \ {"Down", "Up", "PageDown", "PageUp", "Enter"}
                               -> OnKey(ev)
                          [] OTHER -> MsgNone
         /\ last' = [ev |-> ev, was |-> states]
    /\ UNCHANGED <<props, browser, engine, editor, localside, setup>>

\* BookmarkList::update(props)
update ==
    /\ \E p \in PropsSet :
         /\ props' = p
         /\ states' = reset_list_index(set_list_len(states, bookmarks_len(p)))
    /\ returned' = MsgNone
    /\ last' = [ev |-> "update", was |-> states]
    /\ UNCHANGED <<browser, engine, editor, localside, setup>>

\* BookmarkList::active
active ==
    /\ states' = [states EXCEPT !.focus = TRUE]
    /\ last' = [ev |-> "active", was |-> states]
    /\ UNCHANGED <<props, returned, browser, engine, editor, localside, setup>>

\* BookmarkList::blur
blur ==
    /\ states' = [states EXCEPT !.focus = FALSE]
    /\ last' = [ev |-> "blur", was |-> states]
    /\ UNCHANGED <<props, returned, browser, engine, editor, localside, setup>>

\* BookmarkList::new(props)
BookmarkInit ==
    /\ \E p \in PropsSet : props = p /\ states = BookmarkList_new(p)
    /\ returned = MsgNone
    /\ last = NoEvent
    /\ BrowserAtRest
    /\ EngineAtRest
    /\ EditorAtRest
    /\ LocalAtRest
    /\ SetupAtRest

BookmarkNext ==
    \/ on
    \/ update
    \/ active
    \/ blur

BookmarkSpec == BookmarkInit /\ [][BookmarkNext]_vars

(***************************************************************************)
(* Properties of the bookmark list                                         *)
(***************************************************************************)
\* the index selects an element of the list, or is 0 when the list is empty
IndexInside(s) == IF s.list_len = 0 THEN s.list_index = 0 ELSE s.list_index < s.list_len

\* index of the last element (0 for an empty list)
LastIndex(s) == IF s.list_len = 0 THEN 0 ELSE s.list_len - 1

Max(a, b) == IF a >= b THEN a ELSE b

\* C29: after any sequence of key events and update() calls the selected index is
\* inside the list (below list_len, or 0 when the list is empty); Down and Up move
\* it by one, PageDown and PageUp by eight, saturating at the last and at the
\* first element, and none of them changes the length or the focus.
C29_IndexStaysInside ==
    /\ IndexInside(states)
    /\ last.ev = "Down"
          => states.list_index = Min(last.was.list_index + 1, LastIndex(last.was))
    /\ last.ev = "Up"
          => states.list_index = Max(last.was.list_index - 1, 0)
    /\ last.ev = "PageDown"
          => states.list_index = Min(last.was.list_index + 8, LastIndex(last.was))
    /\ last.ev = "PageUp"
          => states.list_index = Max(last.was.list_index - 8, 0)
    /\ last.ev \in {"Down", "Up", "PageDown", "PageUp"}
          => /\ states.list_len = last.was.list_len
             /\ states.focus = last.was.focus

\* PageDown moved the selection by exactly eight, onto the last of ten bookmarks
C29_Witness ==
    /\ last.ev = "PageDown" /\ last.was.list_index = 1
    /\ states.list_index = 9 /\ states.list_len = 10

\* C30: update always resets the selected index to 0 and sets list_len to the
\* number of bookmarks in the new props, whatever the index was; the focus flag
\* is left as it was and the message returned is Msg::None.
C30_UpdateResetsIndex ==
    last.ev = "update"
        => /\ states.list_index = 0
           /\ states.list_len = bookmarks_len(props)
           /\ states.focus = last.was.focus
           /\ returned = MsgNone

\* a focused list whose selection was on the tenth bookmark is given three
C30_Witness ==
    /\ last.ev = "update" /\ last.was.list_index = 9 /\ last.was.focus
    /\ states.list_index = 0 /\ states.list_len = 3 /\ states.focus
    /\ returned = MsgNone

(***************************************************************************)
(* connect, remote_changedir and reload_remote_dir                         *)
(***************************************************************************)
\* the directories of the server and what list_dir answers for them
ServerDirs == {<<"/">>, ServerHome, <<"/", "home", "in">>}

list_dir(path) ==
    CASE path = <<"/">> -> {"home"}
      [] path = ServerHome -> {"in", "a"}
      [] path = <<"/", "home", "in">> -> {"b"}
      [] OTHER -> {}

\* params.entry_directory: None, a directory of the server, one that does not exist
EntryDirectories == {NoPath, <<"/">>, <<"/", "home", "in">>, <<"/", "gone">>}

Call(fn, ok) == [fn |-> fn, ok |-> ok]

\* self.umount_wait()
umount_wait(p) == p \ {"wait"}

\* self.mount_fatal(text)
mount_fatal(p) == p \cup {"fatal"}

\* a slip: the session goes on as if the connection stood
connect_goes_on_always(r) == TRUE

\* the arms of the match on client.connect: Ok(welcome) goes on, Err(err) is fatal
connect_goes_on(r) == r = "Ok"

\* connect, up to the first call that follows client.connect
connect ==
    /\ pc = "connect"
    /\ \E r \in {"Ok", "Err"}, banner \in BOOLEAN :
         /\ r = "Err" => ~banner
         /\ client' = [client EXCEPT !.connected = (r = "Ok")]
         /\ IF connect_goes_on(r)
            THEN /\ log' = IF banner
                           THEN log \cup Log("Info", "Established connection", NoPath)
                           ELSE log
                 /\ calls' = Append(calls, Call("connect", r = "Ok"))
                 /\ pc' = IF params.entry_directory # NoPath THEN "chdir" ELSE "umount"
                 /\ UNCHANGED popups
            ELSE /\ popups' = mount_fatal(umount_wait(popups))
                 /\ calls' = calls \o <<Call("connect", FALSE), Call("umount_wait", TRUE),
                                        Call("mount_fatal", TRUE)>>
                 /\ pc' = "fatal"
                 /\ UNCHANGED log
    /\ UNCHANGED <<params, remote, component, transfers, editor, localside, setup>>

\* remote_changedir(path, push): self.client.change_dir(path); `reload` is where
\* reload_remote_dir starts, `back` where the caller goes on after an error
remote_changedir(here, path, reload, back) ==
    /\ pc = here
    /\ \E ok \in (IF path \in ServerDirs THEN {TRUE} ELSE {}) \cup {FALSE} :
         /\ calls' = Append(calls, Call("change_dir", ok))
         /\ IF ok
            THEN /\ client' = [client EXCEPT !.pwd = path]
                 /\ log' = log \cup Log("Info", "Changed directory on remote", path)
                 /\ pc' = reload
            ELSE /\ log' = log \cup LogAndAlert("Error",
                                  "Could not change working directory", path)
                 /\ pc' = back
                 /\ UNCHANGED client
    /\ UNCHANGED <<params, popups, remote, component, transfers, editor, localside, setup>>

\* reload_remote_dir: self.client.pwd(); nothing is reloaded when it fails
reload_remote_dir_pwd(here, scan, back) ==
    /\ pc = here
    /\ \E ok \in BOOLEAN :
         /\ calls' = Append(calls, Call("pwd", ok))
         /\ pc' = IF ok THEN scan ELSE back
    /\ UNCHANGED <<params, popups, remote, client, log, component, transfers, editor,
                   localside, setup>>

\* reload_remote_dir: remote_scan(wrkdir), then the working directory is set
reload_remote_dir_scan(here, back) ==
    /\ pc = here
    /\ \E ok \in BOOLEAN :
         /\ calls' = Append(calls, Call("list_dir", ok))
         /\ IF ok
            THEN /\ remote' = [remote EXCEPT !.files = list_dir(client.pwd),
                                             !.wrkdir = client.pwd]
                 /\ UNCHANGED log
            ELSE /\ remote' = [remote EXCEPT !.wrkdir = client.pwd]
                 /\ log' = log \cup LogAndAlert("Error", "Could not scan current directory",
                                                client.pwd)
    /\ pc' = back
    /\ UNCHANGED <<params, popups, client, component, transfers, editor, localside, setup>>

\* "Set state to explorer": self.umount_wait()
connect_umount_wait ==
    /\ pc = "umount"
    /\ popups' = umount_wait(popups)
    /\ calls' = Append(calls, Call("umount_wait", TRUE))
    /\ pc' = "pwd"
    /\ UNCHANGED <<params, remote, client, log, component, transfers, editor, localside, setup>>

\* "Update file lists": update_local_filelist(); update_remote_filelist()
connect_update_filelists ==
    /\ pc = "update"
    /\ calls' = calls \o <<Call("update_local_filelist", TRUE),
                           Call("update_remote_filelist", TRUE)>>
    /\ pc' = "explorer"
    /\ UNCHANGED <<params, popups, remote, client, log, component, transfers, editor,
                   localside, setup>>

\* the activity was created: the wait popup is up and connect is called
ConnInit ==
    /\ pc = "connect"
    /\ log = {}
    /\ params \in [entry_directory : EntryDirectories]
    /\ popups = {"wait"}
    /\ remote = ExplorerDefault
    /\ client = [connected |-> FALSE, pwd |-> ServerHome]
    /\ calls = <<>>
    /\ ComponentAtRest
    /\ NoTransfer
    /\ EditorAtRest
    /\ LocalAtRest
    /\ SetupAtRest

ConnNext ==
    \/ connect
    \/ remote_changedir("chdir", params.entry_directory, "chdir_pwd", "umount")
    \/ reload_remote_dir_pwd("chdir_pwd", "chdir_scan", "umount")
    \/ reload_remote_dir_scan("chdir_scan", "umount")
    \/ connect_umount_wait
    \/ reload_remote_dir_pwd("pwd", "scan", "update")
    \/ reload_remote_dir_scan("scan", "update")
    \/ connect_update_filelists

ConnSpec == ConnInit /\ [][ConnNext]_vars

(***************************************************************************)
(* Properties of connect                                                   *)
(***************************************************************************)
\* the names of the calls made so far
Called == {calls[i].fn : i \in DOMAIN calls}

\* reload_remote_dir ran after the wait popup was taken down
ReloadedAfterUmount ==
    \E i \in DOMAIN calls :
        /\ calls[i].fn = "umount_wait"
        /\ i + 1 \in DOMAIN calls /\ calls[i + 1].fn = "pwd"
        /\ calls[i + 1].ok
              => /\ i + 2 \in DOMAIN calls /\ calls[i + 2].fn = "list_dir"
                 /\ remote.wrkdir = client.pwd
                 /\ calls[i + 2].ok => remote.files = list_dir(client.pwd)

C31_AfterAbortOthersUntouched ==
    [][(hist.cut # NoPath /\ transfer.aborted)
          => \A p \in (DOMAIN files \cup DOMAIN files') \ {hist.cut} :
                /\ p \in DOMAIN files /\ p \in DOMAIN files'
                /\ files'[p] = files[p]]_vars

\* C32: an invocation in which nobody cancels returns (every provider call
\* returns, the program keeps running): from its first step on, either the
\* invocation is eventually done or a cancellation was requested.
C32_ReturnsWithoutCancel == (pc = "dispatch") ~> (Done \/ hist.cut # NoPath)

\* C33: the per-file send returns Ok only if every byte of the local file was
\* written to the remote stream (nothing of the file is left unread and the remote
\* file holds what was read); a local file whose size could not be determined is
\* never reported as sent.
C33_SendOkMeansAllBytes ==
    (pc = "one_ret" /\ op = "send" /\ one.ret = "Ok")
        => /\ one.avail = 0
           /\ one.dst \in DOMAIN files /\ files[one.dst] = one.total_bytes_written

\* positions inside the copy of a file, after partial.init
CopyPositions == {"one_loop", "one_read", "one_write", "one_write_call", "one_finalize"}

\* C34: partial and full progress are only ever increased together, by the same
\* delta, which is the size of a chunk that was completely written to the
\* destination; a step that returns an error counts nothing; while a file is
\* copied partial.transferred <= full.transferred, and between two chunks
\* partial.transferred is what the destination file holds.
C34_ProgressMovesTogether ==
    [][/\ transfer'.full.written # transfer.full.written
            => /\ transfer'.full.written - transfer.full.written = one.bytes_read
               /\ transfer'.partial.written - transfer.partial.written = one.bytes_read
               /\ one.delta = one.bytes_read /\ one.bytes_read > 0
               /\ transfer'.full.total = transfer.full.total
       /\ (transfer'.partial.written # transfer.partial.written
              /\ transfer'.full.written = transfer.full.written)
            => /\ transfer'.partial.written = 0
               /\ pc \in {"one_stream", "one_seek"}
       /\ (pc' = "one_ret" /\ one'.ret \notin {"Ok", "Abrupted"}) => transfer' = transfer
       /\ pc \in CopyPositions => transfer.partial.written <= transfer.full.written
       /\ (pc = "one_loop" /\ one.dst \in DOMAIN files)
            => transfer.partial.written = files[one.dst]]_vars

\* the write of the chunk of a second file failed: its bytes were read and are
\* not counted, the bytes of the first file are
C34_Witness ==
    /\ pc = "one_ret" /\ one.ret \in {"RemoteIoError", "LocalIoError"}
    /\ one.src = <<"src", "d", "s", "c">> /\ one.bytes_read = 2
    /\ one.total_bytes_written = 2
    /\ transfer.partial.written = 0 /\ transfer.full.written = 1

\* C35: send and receive return an error only for a File payload, and then
\* exactly when the transfer of that file failed or was aborted (the reason is the
\* one the per-file transfer gave); for Any and Many payloads they return Ok
\* whatever failed or was cancelled during the walk.
C35_ErrOnlyForFilePayload ==
    Done => IF payload.kind = "File"
            THEN /\ result # "Ok" <=> hist.failed # {}
                 /\ result = "Ok" <=> hist.sent # {}
                 /\ \A f \in hist.failed : result = f[2]
                 /\ hist.cut # NoPath => result # "Ok"
            ELSE result = "Ok"

\* a Many batch in which the user cancelled and two files failed returned Ok
C35_Witness ==
    /\ Done /\ payload.kind = "Many" /\ result = "Ok"
    /\ hist.cut # NoPath /\ Cardinality(hist.failed) >= 2

(***************************************************************************)
(* download_file_as_temp                                                   *)
(***************************************************************************)
\* the remote files the text editor can be asked to open
TempFiles == {EntryT, EntryA, EntryZ}

\* download_file_as_temp(file): Err when there is no cache, else
\* filetransfer_recv(File(file), cache path joined with the name, Some(name))
download_file_as_temp ==
    /\ pc = "idle"
    /\ \E file \in TempFiles :
         IF cache = NoPath
         THEN /\ tmp' = [ret |-> "Err", path |-> NoPath]
              /\ pc' = "temp_ret"
              /\ UNCHANGED args
         ELSE /\ payload' = [kind |-> "File", entries |-> <<file>>]
              /\ local_path' = Append(cache, file.name)
              /\ dst_name' = file.name
              /\ op' = "recv"
              /\ tmp' = [tmp EXCEPT !.path = Append(cache, file.name)]
              /\ pc' = "dispatch"
    /\ UNCHANGED <<transfer, stack, top_i, one, files, dirs, result, faults, log, hist,
                   browser, component, cache, localside, setup>>

\* the match on what filetransfer_recv returned: Err(err) => Err(..), Ok(()) => Ok(tmpfile)
download_file_as_temp_result ==
    /\ pc = "done"
    /\ tmp' = [tmp EXCEPT !.ret = IF result = "Ok" THEN "Ok" ELSE "Err"]
    /\ pc' = "temp_ret"
    /\ UNCHANGED <<args, transfer, stack, top_i, one, files, dirs, result, faults, log,
                   hist, browser, component, cache, localside, setup>>

\* the activity with or without a cache directory; the cache may hold the file of
\* an earlier download
TempInit ==
    /\ pc = "idle"
    /\ op = "none"
    /\ payload = [kind |-> "Many", entries |-> <<>>]
    /\ dst_name = NoName
    /\ local_path = DstRoot
    /\ transfer \in {[aborted |-> a, full |-> ProgressStates, partial |-> ProgressStates] :
                        a \in BOOLEAN}
    /\ stack = <<>>
    /\ top_i = 1
    /\ one = NoOne
    /\ \/ files = NoFiles /\ dirs = {}
       \/ files = OldFiles /\ dirs = OldDirs
    /\ result = "none"
    /\ faults = 0
    /\ log = {}
    /\ hist = NoHist
    /\ cache \in {NoPath, DstRoot}
    /\ tmp = NoTmp
    /\ BrowserAtRest
    /\ ComponentAtRest
    /\ LocalAtRest
    /\ SetupAtRest

TempNext ==
    \/ download_file_as_temp
    \/ filetransfer_recv_file
    \/ recv_one_open
    \/ recv_one_stream
    \/ recv_one_loop
    \/ recv_one_read
    \/ recv_one_write
    \/ recv_one_write_call
    \/ recv_one_finalize
    \/ SourceChanges
    \/ filetransfer_recv_file_result
    \/ download_file_as_temp_result

TempSpec == TempInit /\ [][TempNext]_vars

(***************************************************************************)
(* Properties of download_file_as_temp                                     *)
(***************************************************************************)
\* C36: download_file_as_temp returns Ok(path) only if the file was completely
\* received at path, the cache directory joined with the name of the file: when
\* the receive of the file returns Ok the stream holds no byte that was not
\* written to the file; without a cache directory it returns an error, the
\* transfer state is not reset and no provider is called; when the receive fails
\* or is aborted it returns an error.
C36_TempOkMeansReceived ==
    /\ (pc = "one_ret" /\ one.ret = "Ok")
          => /\ one.dst = Append(cache, payload.entries[1].name)
             /\ one.dst \in DOMAIN files
             /\ files[one.dst] = one.total_bytes_written
             /\ one.avail = 0
    /\ (pc = "temp_ret" /\ cache # NoPath)
          => /\ tmp.ret = "Ok" <=> result = "Ok"
             /\ tmp.path = Append(cache, payload.entries[1].name)
             /\ tmp.ret = "Ok" => tmp.path \in hist.sent
             /\ (hist.failed # {} \/ hist.cut # NoPath) => tmp.ret = "Err"
    /\ (pc = "temp_ret" /\ cache = NoPath)
          => /\ tmp = [ret |-> "Err", path |-> NoPath]
             /\ op = "none" /\ hist = NoHist /\ log = {} /\ result = "none"
             /\ transfer.full = ProgressStates

(***************************************************************************)
(* local_changedir and remote_changedir, asked from the explorer            *)
(***************************************************************************)
\* the directories of the local disk and what scan_dir answers for them
LocalDirs == {<<"/">>, LocalHome, <<"/", "work", "out">>}

scan_dir(path) ==
    CASE path = <<"/">> -> {"work"}
      [] path = LocalHome -> {"out", "n"}
      [] path = <<"/", "work", "out">> -> {"m"}
      [] OTHER -> {}

\* FileExplorer::pushd(dir)
pushd(e, dir) == [e EXCEPT !.dirstack = Append(@, dir)]

\* the explorer of a side that shows the directory `wd`, with `ds` to go back to
Showing(wd, listing, ds) == [wrkdir |-> wd, files |-> listing, dirstack |-> ds]

\* what the explorer can ask for: a side, a path (a directory that exists, or one
\* that does not) and whether the directory that is left is remembered
Requests ==
    [side : {"local"}, path : LocalDirs \cup {<<"/", "gone">>}, push : BOOLEAN] \cup
    [side : {"remote"}, path : ServerDirs \cup {<<"/", "gone">>}, push : BOOLEAN]

\* the user enters a directory, goes up or goes back
changedir_asked ==
    /\ pc = "explorer"
    /\ \E r \in Requests :
         /\ chdir' = [side |-> r.side, path |-> r.path, push |-> r.push,
                      was |-> IF r.side = "local" THEN local ELSE remote]
         /\ pc' = IF r.side = "local" THEN "lchdir" ELSE "rchdir"
    /\ UNCHANGED <<local, host, browser, log, component, transfers, editor, setup>>

\* `if push { pushd(prev_dir) }`
push_prev_dir(push) == push

\* local_changedir(path, push): host.change_wrkdir(path), then reload_local_dir
\* (host.pwd(), local_scan, wrkdir) and the push of prev_dir
local_changedir ==
    /\ pc = "lchdir"
    /\ LET prev_dir == local.wrkdir
       IN  \E ok \in (IF chdir.path \in LocalDirs THEN {TRUE} ELSE {}) \cup {FALSE},
              scan_ok \in BOOLEAN :
             /\ calls' = IF ok
                         THEN calls \o <<Call("change_wrkdir", TRUE), Call("pwd", TRUE),
                                         Call("scan_dir", scan_ok)>>
                         ELSE Append(calls, Call("change_wrkdir", FALSE))
             /\ ~ok => scan_ok
             /\ IF ok
                THEN LET wrkdir == chdir.path
                         scanned == IF scan_ok
                                    THEN [local EXCEPT !.files = scan_dir(wrkdir)]
                                    ELSE local
                         reloaded == [scanned EXCEPT !.wrkdir = wrkdir]
                     IN  /\ host' = [host EXCEPT !.pwd = wrkdir]
                         /\ log' = log \cup Log("Info", "Changed directory on local",
                                                chdir.path)
                                       \cup (IF scan_ok THEN {}
                                             ELSE LogAndAlert("Error",
                                                    "Could not scan current directory",
                                                    wrkdir))
                         /\ local' = IF push_prev_dir(chdir.push)
                                     THEN pushd(reloaded, prev_dir) ELSE reloaded
                ELSE /\ log' = log \cup LogAndAlert("Error",
                                      "Could not change working directory", chdir.path)
                     /\ UNCHANGED <<local, host>>
    /\ pc' = "changed"
    /\ UNCHANGED <<chdir, params, popups, remote, client, component, transfers, editor,
                   setup>>

\* remote_changedir, after reload_remote_dir: the push of prev_dir
remote_changedir_pushd ==
    /\ pc = "rchdir_push"
    /\ LET prev_dir == chdir.was.wrkdir
       IN  remote' = IF push_prev_dir(chdir.push) THEN pushd(remote, prev_dir) ELSE remote
    /\ pc' = "changed"
    /\ UNCHANGED <<params, popups, client, calls, log, component, transfers, editor,
                   localside, setup>>

\* the explorer shows a directory on each side; it may have come there from "/"
ChdirInit ==
    /\ pc = "explorer"
    /\ log = {}
    /\ params = [entry_directory |-> NoPath]
    /\ popups = {}
    /\ \E wd \in ServerDirs, ds \in {<<>>, << <<"/">> >>} :
         /\ remote = Showing(wd, list_dir(wd), ds)
         /\ client = [connected |-> TRUE, pwd |-> wd]
    /\ \E wd \in LocalDirs, ds \in {<<>>, << <<"/">> >>} :
         /\ local = Showing(wd, scan_dir(wd), ds)
         /\ host = [pwd |-> wd]
    /\ calls = <<>>
    /\ chdir = NoChdir
    /\ ComponentAtRest
    /\ NoTransfer
    /\ EditorAtRest
    /\ SetupAtRest

ChdirNext ==
    \/ changedir_asked
    \/ local_changedir
    \/ remote_changedir("rchdir", chdir.path, "rchdir_pwd", "changed")
    \/ reload_remote_dir_pwd("rchdir_pwd", "rchdir_scan", "rchdir_push")
    \/ reload_remote_dir_scan("rchdir_scan", "rchdir_push")
    \/ remote_changedir_pushd

ChdirSpec == ChdirInit /\ [][ChdirNext]_vars

(***************************************************************************)
(* Properties of local_changedir and remote_changedir                      *)
(***************************************************************************)
\* the explorer of the side that was asked
Asked == IF chdir.side = "local" THEN local ELSE remote

\* the listing of the directory that was asked for
ListingAsked == IF chdir.side = "local" THEN scan_dir(chdir.path) ELSE list_dir(chdir.path)

\* the provider changed the directory
Changed == calls # <<>> /\ calls[1].ok

CouldNotChange == Line("Error", TRUE, "Could not change working directory", chdir.path)

\* C37: when the change of directory fails, the working directory, the file list
\* and the directory stack of the explorer are as before and an error alert is up;
\* when it succeeds, the explorer shows the listing of the new directory, and the
\* directory that was left is on top of the directory stack exactly when push is
\* true.
C37_ChangedirFrame ==
    pc = "changed"
        => IF Changed
           THEN /\ Asked.wrkdir = chdir.path
                /\ Asked.files = ListingAsked
                /\ Asked.dirstack = IF chdir.push
                                    THEN Append(chdir.was.dirstack, chdir.was.wrkdir)
                                    ELSE chdir.was.dirstack
           ELSE /\ Asked = chdir.was
                /\ CouldNotChange \in log

(***************************************************************************)
(* The setup activity: SetupActivity::update                               *)
(***************************************************************************)
\* view.active(component) of the arms for <DOWN> and <UP>, one entry per arm
SetupDown ==
    "INPUT_TEXT_EDITOR" :> "RADIO_DEFAULT_PROTOCOL"
    @@ "RADIO_DEFAULT_PROTOCOL" :> "RADIO_HIDDEN_FILES"
    @@ "RADIO_HIDDEN_FILES" :> "RADIO_UPDATES"
    @@ "RADIO_UPDATES" :> "RADIO_GROUP_DIRS"
    @@ "RADIO_GROUP_DIRS" :> "INPUT_LOCAL_FILE_FMT"
    @@ "INPUT_LOCAL_FILE_FMT" :> "INPUT_REMOTE_FILE_FMT"
    @@ "INPUT_REMOTE_FILE_FMT" :> "INPUT_TEXT_EDITOR"

\* a slip: <UP> of two neighbours is exchanged
SetupUpCrossed ==
    "INPUT_REMOTE_FILE_FMT" :> "INPUT_LOCAL_FILE_FMT"
    @@ "INPUT_LOCAL_FILE_FMT" :> "RADIO_GROUP_DIRS"
    @@ "RADIO_GROUP_DIRS" :> "RADIO_HIDDEN_FILES"
    @@ "RADIO_UPDATES" :> "RADIO_UPDATES"
    @@ "RADIO_HIDDEN_FILES" :> "RADIO_DEFAULT_PROTOCOL"
    @@ "RADIO_DEFAULT_PROTOCOL" :> "INPUT_TEXT_EDITOR"
    @@ "INPUT_TEXT_EDITOR" :> "INPUT_REMOTE_FILE_FMT"

SetupUp ==
    "INPUT_REMOTE_FILE_FMT" :> "INPUT_LOCAL_FILE_FMT"
    @@ "INPUT_LOCAL_FILE_FMT" :> "RADIO_GROUP_DIRS"
    @@ "RADIO_GROUP_DIRS" :> "RADIO_UPDATES"
    @@ "RADIO_UPDATES" :> "RADIO_HIDDEN_FILES"
    @@ "RADIO_HIDDEN_FILES" :> "RADIO_DEFAULT_PROTOCOL"
    @@ "RADIO_DEFAULT_PROTOCOL" :> "INPUT_TEXT_EDITOR"
    @@ "INPUT_TEXT_EDITOR" :> "INPUT_REMOTE_FILE_FMT"

ThemeDown ==
    "COLOR_AUTH_PROTOCOL" :> "COLOR_AUTH_ADDR"
    @@ "COLOR_AUTH_ADDR" :> "COLOR_AUTH_PORT"
    @@ "COLOR_AUTH_PORT" :> "COLOR_AUTH_USERNAME"
    @@ "COLOR_AUTH_USERNAME" :> "COLOR_AUTH_PASSWORD"
    @@ "COLOR_AUTH_PASSWORD" :> "COLOR_AUTH_BOOKMARKS"
    @@ "COLOR_AUTH_BOOKMARKS" :> "COLOR_AUTH_RECENTS"
    @@ "COLOR_AUTH_RECENTS" :> "COLOR_MISC_ERROR"
    @@ "COLOR_MISC_ERROR" :> "COLOR_MISC_INPUT"
    @@ "COLOR_MISC_INPUT" :> "COLOR_MISC_KEYS"
    @@ "COLOR_MISC_KEYS" :> "COLOR_MISC_QUIT"
    @@ "COLOR_MISC_QUIT" :> "COLOR_MISC_SAVE"
    @@ "COLOR_MISC_SAVE" :> "COLOR_MISC_WARN"
    @@ "COLOR_MISC_WARN" :> "COLOR_TRANSFER_EXPLORER_LOCAL_BG"
    @@ "COLOR_TRANSFER_EXPLORER_LOCAL_BG" :> "COLOR_TRANSFER_EXPLORER_LOCAL_FG"
    @@ "COLOR_TRANSFER_EXPLORER_LOCAL_FG" :> "COLOR_TRANSFER_EXPLORER_LOCAL_HG"
    @@ "COLOR_TRANSFER_EXPLORER_LOCAL_HG" :> "COLOR_TRANSFER_EXPLORER_REMOTE_BG"
    @@ "COLOR_TRANSFER_EXPLORER_REMOTE_BG" :> "COLOR_TRANSFER_EXPLORER_REMOTE_FG"
    @@ "COLOR_TRANSFER_EXPLORER_REMOTE_FG" :> "COLOR_TRANSFER_EXPLORER_REMOTE_HG"
    @@ "COLOR_TRANSFER_EXPLORER_REMOTE_HG" :> "COLOR_TRANSFER_PROG_BAR_FULL"
    @@ "COLOR_TRANSFER_PROG_BAR_FULL" :> "COLOR_TRANSFER_PROG_BAR_PARTIAL"
    @@ "COLOR_TRANSFER_PROG_BAR_PARTIAL" :> "COLOR_TRANSFER_LOG_BG"
    @@ "COLOR_TRANSFER_LOG_BG" :> "COLOR_TRANSFER_LOG_WIN"
    @@ "COLOR_TRANSFER_LOG_WIN" :> "COLOR_TRANSFER_STATUS_SORTING"
    @@ "COLOR_TRANSFER_STATUS_SORTING" :> "COLOR_TRANSFER_STATUS_HIDDEN"
    @@ "COLOR_TRANSFER_STATUS_HIDDEN" :> "COLOR_TRANSFER_STATUS_SYNC"
    @@ "COLOR_TRANSFER_STATUS_SYNC" :> "COLOR_AUTH_PROTOCOL"

ThemeUp ==
    "COLOR_AUTH_PROTOCOL" :> "COLOR_TRANSFER_STATUS_SYNC"
    @@ "COLOR_AUTH_ADDR" :> "COLOR_AUTH_PROTOCOL"
    @@ "COLOR_AUTH_PORT" :> "COLOR_AUTH_ADDR"
    @@ "COLOR_AUTH_USERNAME" :> "COLOR_AUTH_PORT"
    @@ "COLOR_AUTH_PASSWORD" :> "COLOR_AUTH_USERNAME"
    @@ "COLOR_AUTH_BOOKMARKS" :> "COLOR_AUTH_PASSWORD"
    @@ "COLOR_AUTH_RECENTS" :> "COLOR_AUTH_BOOKMARKS"
    @@ "COLOR_MISC_ERROR" :> "COLOR_AUTH_RECENTS"
    @@ "COLOR_MISC_INPUT" :> "COLOR_MISC_ERROR"
    @@ "COLOR_MISC_KEYS" :> "COLOR_MISC_INPUT"
    @@ "COLOR_MISC_QUIT" :> "COLOR_MISC_KEYS"
    @@ "COLOR_MISC_SAVE" :> "COLOR_MISC_QUIT"
    @@ "COLOR_MISC_WARN" :> "COLOR_MISC_SAVE"
    @@ "COLOR_TRANSFER_EXPLORER_LOCAL_BG" :> "COLOR_MISC_WARN"
    @@ "COLOR_TRANSFER_EXPLORER_LOCAL_FG" :> "COLOR_TRANSFER_EXPLORER_LOCAL_BG"
    @@ "COLOR_TRANSFER_EXPLORER_LOCAL_HG" :> "COLOR_TRANSFER_EXPLORER_LOCAL_FG"
    @@ "COLOR_TRANSFER_EXPLORER_REMOTE_BG" :> "COLOR_TRANSFER_EXPLORER_LOCAL_HG"
    @@ "COLOR_TRANSFER_EXPLORER_REMOTE_FG" :> "COLOR_TRANSFER_EXPLORER_REMOTE_BG"
    @@ "COLOR_TRANSFER_EXPLORER_REMOTE_HG" :> "COLOR_TRANSFER_EXPLORER_REMOTE_FG"
    @@ "COLOR_TRANSFER_PROG_BAR_FULL" :> "COLOR_TRANSFER_EXPLORER_REMOTE_HG"
    @@ "COLOR_TRANSFER_PROG_BAR_PARTIAL" :> "COLOR_TRANSFER_PROG_BAR_FULL"
    @@ "COLOR_TRANSFER_LOG_BG" :> "COLOR_TRANSFER_PROG_BAR_PARTIAL"
    @@ "COLOR_TRANSFER_LOG_WIN" :> "COLOR_TRANSFER_LOG_BG"
    @@ "COLOR_TRANSFER_STATUS_SORTING" :> "COLOR_TRANSFER_LOG_WIN"
    @@ "COLOR_TRANSFER_STATUS_HIDDEN" :> "COLOR_TRANSFER_STATUS_SORTING"
    @@ "COLOR_TRANSFER_STATUS_SYNC" :> "COLOR_TRANSFER_STATUS_HIDDEN"

\* the component a layout gives the focus when it is shown
FirstField(layout) ==
    CASE layout = "SetupForm" -> "INPUT_TEXT_EDITOR"
      [] layout = "SshKeys" -> "LIST_SSH_KEYS"
      [] layout = "Theme" -> "COLOR_AUTH_PROTOCOL"

\* components by what they are: texts, radio groups, the list of keys, inputs
TextComponents == {"TEXT_ERROR", "TEXT_HELP"}

RadioComponents ==
    {"RADIO_QUIT", "RADIO_SAVE", "RADIO_DEL_SSH_KEY", "RADIO_DEFAULT_PROTOCOL",
     "RADIO_HIDDEN_FILES", "RADIO_UPDATES", "RADIO_GROUP_DIRS"}

ListComponents == {"LIST_SSH_KEYS"}

\* MSG_KEY_*: the keys update matches, and one it does not
MsgKeys ==
    {"DOWN", "UP", "ESC", "ENTER", "TAB", "CTRL_H", "CTRL_R", "CTRL_S", "CTRL_N",
     "CTRL_E", "DEL", "CHAR"}

\* Msg::OnSubmit(Payload::One(Value::Str(_)))
OnSubmitStr == [kind |-> "OnSubmit", key |-> "Str", index |-> 0]

\* Msg::OnChange(Payload::One(Value::Usize(index)))
OnChangeUsize(index) == [kind |-> "OnChange", key |-> "-", index |-> index]

\* Msg::OnChange(Payload::One(Value::Str(text)))
OnChangeStr(text) == [kind |-> "OnChange", key |-> text, index |-> 0]

\* parse_color(color): Some for a colour, None for any other text
parse_color(text) == text = "#ff0000"

\* what a component can send: a text only keys; a radio group keys and its choice;
\* the list keys and its index; an input keys and its text
Messages(from) ==
    {OnKey(k) : k \in MsgKeys} \cup
    (CASE from \in TextComponents -> {}
       [] from \in RadioComponents ->
            {OnSubmit(i) : i \in 0..2} \cup {OnChangeUsize(i) : i \in 0..1}
       [] from \in ListComponents ->
            {OnSubmit(i) : i \in 0..1} \cup {OnChangeUsize(i) : i \in 0..1}
       [] OTHER -> {OnSubmitStr, OnChangeStr("#ff0000"), OnChangeStr("zz")})

\* the component that has the focus: the popup mounted last, else the field
Focus(a) == IF a.popups = <<>> THEN a.field ELSE a.popups[Len(a.popups)]

Without(s, c) == SelectSeq(s, LAMBDA x : x # c)

\* self.mount_*(): the popup is mounted and takes the focus
Mount(a, c) == [a EXCEPT !.popups = Append(Without(@, c), c)]

\* self.umount_*(): the popup is gone, the focus goes back
Umount(a, c) == [a EXCEPT !.popups = Without(@, c)]

\* self.view.active(component)
Active(a, c) ==
    IF a.popups = <<>> THEN [a EXCEPT !.field = c]
    ELSE [a EXCEPT !.popups = [@ EXCEPT ![Len(a.popups)] = c]]

\* self.set_config_changed(changed)
set_config_changed(a, changed) == [a EXCEPT !.config_changed = changed]

\* what update did: the activity after it and the helpers it called
R(a, did) == [a |-> a, did |-> did]

\* self.action_save_all(), and mount_error(err) when it fails
action_save_all(a, ok) ==
    IF ok THEN R(set_config_changed(a, FALSE), {"action_save_all"})
    ELSE R(Mount(a, "TEXT_ERROR"), {"action_save_all", "mount_error"})

\* a slip: the activity is left only when the configuration was saved
quit_after_save_only(ok) == ok

\* option 0 of the quit dialog: exit_reason is set after the attempt to save,
\* outside the `if let Err`
quit_after_save(ok) == TRUE

\* self.action_change_tab(layout), and mount_error(err) when it fails
action_change_tab(a, layout, ok) ==
    IF ok THEN R([a EXCEPT !.layout = layout, !.field = FirstField(layout)],
                 {"action_change_tab"})
    ELSE R(Mount(a, "TEXT_ERROR"), {"action_change_tab", "mount_error"})

\* self.action_reset_config() / self.action_reset_theme(), and mount_error(err)
action_reset(a, what, ok) ==
    IF ok THEN R(a, {what}) ELSE R(Mount(a, "TEXT_ERROR"), {what, "mount_error"})

\* self.action_on_esc(): the quit dialog when there are changes, else quit
action_on_esc(a) ==
    IF a.config_changed THEN R(Mount(a, "RADIO_QUIT"), {"action_on_esc", "mount_quit"})
    ELSE R([a EXCEPT !.exit_reason = "Quit"], {"action_on_esc"})

\* a slip: the arm `(COMPONENT_TEXT_HELP, _) => None` is missing
CatchAllButHelp(layout) ==
    {"TEXT_ERROR", "RADIO_QUIT", "RADIO_SAVE"} \cup
    (IF layout = "SshKeys" THEN {"RADIO_DEL_SSH_KEY"} ELSE {})

\* the popups whose last arm is `(COMPONENT_.., _) => None`
CatchAll(layout) ==
    {"TEXT_ERROR", "RADIO_QUIT", "TEXT_HELP", "RADIO_SAVE"} \cup
    (IF layout = "SshKeys" THEN {"RADIO_DEL_SSH_KEY"} ELSE {})

\* the arms of a popup that do something
PopupActs(layout, from, msg) ==
    \/ from \in {"TEXT_ERROR", "TEXT_HELP"} /\ msg \in {OnKey("ESC"), OnKey("ENTER")}
    \/ from \in {"RADIO_QUIT", "RADIO_SAVE"} /\ msg.kind = "OnSubmit"
    \/ layout = "SshKeys" /\ from = "RADIO_DEL_SSH_KEY" /\ msg.kind = "OnSubmit"

\* the arms of the error text, the quit dialog, the help text, the dialog to
\* delete a key and the save dialog
popup_arms(a, from, msg, ok) ==
    CASE from = "TEXT_ERROR" -> R(Umount(a, "TEXT_ERROR"), {"umount_error"})
      [] from = "RADIO_QUIT" /\ msg = OnSubmit(0) ->
            LET saved == action_save_all(a, ok)
            IN  IF quit_after_save(ok)
                THEN R([saved.a EXCEPT !.exit_reason = "Quit"], saved.did)
                ELSE saved
      [] from = "RADIO_QUIT" /\ msg = OnSubmit(1) ->
            R(Umount([a EXCEPT !.exit_reason = "Quit"], "RADIO_QUIT"), {"umount_quit"})
      [] from = "RADIO_QUIT" /\ msg \notin {OnSubmit(0), OnSubmit(1)} ->
            R(Umount(a, "RADIO_QUIT"), {"umount_quit"})
      [] from = "TEXT_HELP" -> R(Umount(a, "TEXT_HELP"), {"umount_help"})
      [] from = "RADIO_DEL_SSH_KEY" /\ msg = OnSubmit(0) ->
            R(Umount(a, "RADIO_DEL_SSH_KEY"),
              {"action_delete_ssh_key", "reload_ssh_keys", "umount_del_ssh_key"})
      [] from = "RADIO_DEL_SSH_KEY" /\ msg # OnSubmit(0) ->
            R(Umount(a, "RADIO_DEL_SSH_KEY"), {"umount_del_ssh_key"})
      [] from = "RADIO_SAVE" /\ msg = OnSubmit(0) ->
            LET saved == action_save_all(a, ok)
            IN  R(Umount(saved.a, "RADIO_SAVE"), saved.did \cup {"umount_save_popup"})
      [] from = "RADIO_SAVE" /\ msg # OnSubmit(0) ->
            R(Umount(a, "RADIO_SAVE"), {"umount_save_popup"})

\* the arms `(_, key)` at the end of each layout: <CTRL+H>, <TAB>, <CTRL+R>,
\* <CTRL+S>, <ESC>, and `(_, _) => None`
shortcuts(a, next, revert, msg, ok) ==
    CASE msg = OnKey("CTRL_H") -> R(Mount(a, "TEXT_HELP"), {"mount_help"})
      [] msg = OnKey("TAB") -> action_change_tab(a, next, ok)
      [] msg = OnKey("CTRL_R") -> action_reset(a, revert, ok)
      [] msg = OnKey("CTRL_S") -> R(Mount(a, "RADIO_SAVE"), {"mount_save_popup"})
      [] msg = OnKey("ESC") -> action_on_esc(a)
      [] OTHER -> R(a, {})

\* the match of update_setup, arm by arm
on_setup(a, from, msg, ok) ==
    IF msg = OnKey("DOWN") /\ from \in DOMAIN SetupDown
    THEN R(Active(a, SetupDown[from]), {"active"})
    ELSE IF msg = OnKey("UP") /\ from \in DOMAIN SetupUp
    THEN R(Active(a, SetupUp[from]), {"active"})
    ELSE IF PopupActs("SetupForm", from, msg) THEN popup_arms(a, from, msg, ok)
    ELSE IF from \in CatchAll("SetupForm") THEN R(a, {})
    ELSE IF msg.kind = "OnChange" THEN R(set_config_changed(a, TRUE), {})
    ELSE shortcuts(a, "SshKeys", "action_reset_config", msg, ok)

NewKeyInputs == {"INPUT_SSH_HOST", "INPUT_SSH_USERNAME"}

\* the other input of the popup for a new key
OtherInput(from) == IF from = "INPUT_SSH_HOST" THEN "INPUT_SSH_USERNAME" ELSE "INPUT_SSH_HOST"

\* self.umount_new_ssh_key()
umount_new_ssh_key(a) == Umount(Umount(a, "INPUT_SSH_HOST"), "INPUT_SSH_USERNAME")

\* the match of update_ssh_keys, arm by arm
on_ssh_keys(a, from, msg, ok) ==
    IF PopupActs("SshKeys", from, msg) THEN popup_arms(a, from, msg, ok)
    ELSE IF from \in CatchAll("SshKeys") THEN R(a, {})
    ELSE IF msg = OnKey("CTRL_H") THEN R(Mount(a, "TEXT_HELP"), {"mount_help"})
    ELSE IF from \in NewKeyInputs /\ msg \in {OnKey("DOWN"), OnKey("UP"), OnKey("TAB")}
    THEN R(Active(a, OtherInput(from)), {"active"})
    ELSE IF from \in NewKeyInputs /\ msg.kind = "OnSubmit"
    THEN R(umount_new_ssh_key(a),
           {"action_new_ssh_key", "umount_new_ssh_key", "reload_ssh_keys"})
    ELSE IF from \in NewKeyInputs /\ msg = OnKey("ESC")
    THEN R(umount_new_ssh_key(a), {"umount_new_ssh_key"})
    ELSE IF from = "LIST_SSH_KEYS" /\ msg = OnKey("CTRL_N")
    THEN R(Mount(a, "INPUT_SSH_HOST"), {"mount_new_ssh_key"})
    ELSE IF from = "LIST_SSH_KEYS" /\ msg.kind = "OnSubmit"
    THEN IF ok THEN R(a, {"edit_ssh_key"})
         ELSE R(Mount(a, "TEXT_ERROR"), {"edit_ssh_key", "mount_error"})
    ELSE IF from = "LIST_SSH_KEYS" /\ msg \in {OnKey("CTRL_E"), OnKey("DEL")}
    THEN R(Mount(a, "RADIO_DEL_SSH_KEY"), {"mount_del_ssh_key"})
    ELSE shortcuts(a, "Theme", "action_reset_config", msg, ok)

\* the match of update_theme, arm by arm
on_theme(a, from, msg, ok) ==
    IF msg = OnKey("DOWN") /\ from \in DOMAIN ThemeDown
    THEN R(Active(a, ThemeDown[from]), {"active"})
    ELSE IF msg = OnKey("UP") /\ from \in DOMAIN ThemeUp
    THEN R(Active(a, ThemeUp[from]), {"active"})
    ELSE IF msg.kind = "OnChange" /\ msg.key # "-"
    THEN IF parse_color(msg.key)
         THEN R(set_config_changed(a, TRUE), {"action_save_color"})
         ELSE R(a, {})
    ELSE IF PopupActs("Theme", from, msg) THEN popup_arms(a, from, msg, ok)
    ELSE IF from \in CatchAll("Theme") THEN R(a, {})
    ELSE shortcuts(a, "SetupForm", "action_reset_theme", msg, ok)

\* SetupActivity::update(msg): the message comes from the component that has the
\* focus; r is what the arm that matched did
Handle(msg, r) ==
    /\ activity' = r.a
    /\ handled' = [from |-> Focus(activity), msg |-> msg, was |-> activity,
                   did |-> r.did]
    /\ UNCHANGED <<engine, browser, component, editor, localside>>

\* `match self.layout`: ViewLayout::SetupForm => self.update_setup(msg); `ok` is
\* what the helper that can fail returns
update_setup ==
    /\ activity.layout = "SetupForm"
    /\ activity.exit_reason = "None"
    /\ \E msg \in Messages(Focus(activity)), ok \in BOOLEAN :
         Handle(msg, on_setup(activity, Focus(activity), msg, ok))

\* ViewLayout::SshKeys => self.update_ssh_keys(msg)
update_ssh_keys ==
    /\ activity.layout = "SshKeys"
    /\ activity.exit_reason = "None"
    /\ \E msg \in Messages(Focus(activity)), ok \in BOOLEAN :
         Handle(msg, on_ssh_keys(activity, Focus(activity), msg, ok))

\* ViewLayout::Theme => self.update_theme(msg)
update_theme ==
    /\ activity.layout = "Theme"
    /\ activity.exit_reason = "None"
    /\ \E msg \in Messages(Focus(activity)), ok \in BOOLEAN :
         Handle(msg, on_theme(activity, Focus(activity), msg, ok))

\* the activity was created: the form is shown, nothing was changed
SetupInit ==
    /\ activity = [layout |-> "SetupForm", field |-> FirstField("SetupForm"),
                   popups |-> <<>>, exit_reason |-> "None", config_changed |-> FALSE]
    /\ handled = NoUpdate
    /\ EngineAtRest
    /\ BrowserAtRest
    /\ ComponentAtRest
    /\ EditorAtRest
    /\ LocalAtRest

SetupNext ==
    \/ update_setup
    \/ update_ssh_keys
    \/ update_theme

SetupSpec == SetupInit /\ [][SetupNext]_vars

(***************************************************************************)
(* Properties of the setup activity                                        *)
(***************************************************************************)
\* the tables of the layout that is shown (none for the SSH keys)
DownOf(layout) == IF layout = "SetupForm" THEN SetupDown ELSE ThemeDown

UpOf(layout) == IF layout = "SetupForm" THEN SetupUp ELSE ThemeUp

RECURSIVE Walk(_, _, _)
\* the field reached from c by n moves along the table
Walk(tab, c, n) == IF n = 0 THEN c ELSE Walk(tab, tab[c], n - 1)

\* the fields n - 1 moves visit from c, c included
Visited(tab, c, n) == {Walk(tab, c, k) : k \in 0..(n - 1)}

\* the message of the step came from a field of the form and was the key
Pressed(h, key) == h.msg = OnKey(key) /\ h.was.popups = <<>> /\ h.was.layout # "SshKeys"

\* C38: focus navigation is a closed cycle. From the field that has the focus,
\* DOWN comes back to it after exactly 7 moves in the SetupForm layout and 26 in
\* the Theme layout, visiting every field of the layout once; UP has the same
\* fields and is the inverse of DOWN. A DOWN or UP message moves the focus as the
\* table says and changes nothing else, and an UP handled right after a DOWN, or a
\* DOWN right after an UP, puts the focus back on the field it started from.
C38_FocusCycle ==
    [][/\ (activity.popups = <<>> /\ activity.layout # "SshKeys")
            => LET down == DownOf(activity.layout)
                   up == UpOf(activity.layout)
                   n == IF activity.layout = "SetupForm" THEN 7 ELSE 26
                   f == activity.field
               IN  /\ Cardinality(DOMAIN down) = n /\ DOMAIN up = DOMAIN down
                   /\ f \in DOMAIN down
                   /\ Visited(down, f, n) = DOMAIN down
                   /\ Walk(down, f, n) = f
                   /\ Visited(up, f, n) = DOMAIN up
                   /\ up[down[f]] = f /\ down[up[f]] = f
       /\ Pressed(handled', "DOWN")
            => activity' = [activity EXCEPT !.field = DownOf(activity.layout)[@]]
       /\ Pressed(handled', "UP")
            => activity' = [activity EXCEPT !.field = UpOf(activity.layout)[@]]
       /\ (Pressed(handled, "DOWN") /\ Pressed(handled', "UP"))
            => activity'.field = handled.was.field
       /\ (Pressed(handled, "UP") /\ Pressed(handled', "DOWN"))
            => activity'.field = handled.was.field]_vars

\* DOWN on the last of the 26 colour fields wrapped around to the first one
C38_Witness ==
    /\ activity.layout = "Theme" /\ Pressed(handled, "DOWN")
    /\ handled.was.field = "COLOR_TRANSFER_STATUS_SYNC"
    /\ activity.field = "COLOR_AUTH_PROTOCOL"

\* the popups of the three layouts and the messages that close or submit them
PopupsOfAllLayouts ==
    {"TEXT_ERROR", "TEXT_HELP", "RADIO_QUIT", "RADIO_SAVE", "RADIO_DEL_SSH_KEY"}

ClosesOrSubmits(h) ==
    IF h.from \in {"TEXT_ERROR", "TEXT_HELP"}
    THEN h.msg \in {OnKey("ESC"), OnKey("ENTER")}
    ELSE h.msg.kind = "OnSubmit"

\* C39: while a popup (error text, help text, quit dialog, save dialog, dialog to
\* delete a key) is the source of the message, no global shortcut takes effect:
\* a message other than the popup's closing or submit keys leaves the activity as
\* it was and calls no helper (no tab change, no save popup, no revert, no help),
\* in every layout.
C39_PopupBlocksShortcuts ==
    (handled.from \in PopupsOfAllLayouts /\ ~ClosesOrSubmits(handled))
        => /\ activity = handled.was
           /\ handled.did = {}

\* <TAB> reached the help text in the Theme layout and <CTRL+S> the quit dialog
\* in the SSH keys layout: nothing happened
C39_Witness ==
    \/ /\ handled.from = "TEXT_HELP" /\ handled.msg = OnKey("TAB")
       /\ activity.layout = "Theme" /\ activity = handled.was
    \/ /\ handled.from = "RADIO_QUIT" /\ handled.msg = OnKey("CTRL_S")
       /\ activity.layout = "SshKeys" /\ activity = handled.was

\* C40: option 0 of the quit dialog (save and quit) sets the exit reason to Quit
\* whether or not the configuration could be saved, a failure to save only mounts
\* the error popup; option 1 sets Quit without saving; any other submission only
\* closes the dialog and leaves the exit reason unset.
C40_QuitDialog ==
    (handled.from = "RADIO_QUIT" /\ handled.msg.kind = "OnSubmit")
        => CASE handled.msg = OnSubmit(0) ->
                  /\ activity.exit_reason = "Quit"
                  /\ "action_save_all" \in handled.did
                  /\ \/ /\ "mount_error" \in handled.did
                        /\ activity = [Mount(handled.was, "TEXT_ERROR")
                                          EXCEPT !.exit_reason = "Quit"]
                     \/ /\ "mount_error" \notin handled.did
                        /\ activity.popups = handled.was.popups
                        /\ activity.layout = handled.was.layout
                        /\ activity.field = handled.was.field
             [] handled.msg = OnSubmit(1) ->
                  /\ activity = [Umount(handled.was, "RADIO_QUIT")
                                    EXCEPT !.exit_reason = "Quit"]
                  /\ "action_save_all" \notin handled.did
             [] OTHER ->
                  /\ activity = Umount(handled.was, "RADIO_QUIT")
                  /\ activity.exit_reason = "None"
                  /\ handled.did = {"umount_quit"}

\* save and quit was chosen in the Theme layout, the configuration could not be
\* saved: the error popup is up and the exit reason is Quit
C40_Witness ==
    /\ handled.from = "RADIO_QUIT" /\ handled.msg = OnSubmit(0)
    /\ activity.layout = "Theme"
    /\ "mount_error" \in handled.did /\ Focus(activity) = "TEXT_ERROR"
    /\ activity.exit_reason = "Quit"

====
